---------------------------- MODULE Spec2Model ----------------------------
(* A model of the sigma-ts detection engine: the rule parser              *)
(* (parseRule, parseDetection, parseSearchMap, ConditionParser), the      *)
(* expression tree and its evaluation (exprMatches), and the search-atom  *)
(* compiler (validate, _expandPatterns, _compile).                        *)
(*                                                                        *)
(* Strings are sequences of one-character strings, so that lexing,        *)
(* escaping, glob translation and regular-expression matching are         *)
(* computed character by character as the code computes them.             *)
EXTENDS Integers, Sequences, FiniteSets, TLC

(**************************************************************************)
(* Strings                                                                *)
(**************************************************************************)

\* A string literal of the source, as the sequence of its characters.
Str(s) == [i \in 1..Len(s) |-> SubSeq(s, i, i)]

\* The value of an absent field / argument (JavaScript undefined).
UNDEF == <<"<undefined>">>

UPPER == <<"A","B","C","D","E","F","G","H","I","J","K","L","M",
           "N","O","P","Q","R","S","T","U","V","W","X","Y","Z">>

LOWER == <<"a","b","c","d","e","f","g","h","i","j","k","l","m",
           "n","o","p","q","r","s","t","u","v","w","x","y","z">>

DIGITS == <<"0","1","2","3","4","5","6","7","8","9">>

\* String.prototype.toLowerCase on one character.
ToLowerChar(c) ==
  IF \E i \in 1..26 : UPPER[i] = c
  THEN LOWER[CHOOSE i \in 1..26 : UPPER[i] = c]
  ELSE c

\* String.prototype.toLowerCase.
ToLowerCase(s) == [i \in 1..Len(s) |-> ToLowerChar(s[i])]

IsDigit(c) == \E i \in 1..10 : DIGITS[i] = c

DigitVal(c) == (CHOOSE i \in 1..10 : DIGITS[i] = c) - 1

IsWordChar(c) ==
  \/ \E i \in 1..26 : UPPER[i] = c \/ LOWER[i] = c
  \/ IsDigit(c)
  \/ c = "_"

IsSpace(c) == c \in {" ", "\t", "\n", "\r"}

\* s.substring(from) with 1-based from.
Drop(s, n) == IF n >= Len(s) THEN <<>> ELSE SubSeq(s, n + 1, Len(s))

Take(s, n) == IF n <= 0 THEN <<>> ELSE SubSeq(s, 1, IF n > Len(s) THEN Len(s) ELSE n)

\* String.prototype.startsWith / endsWith.
StartsWith(s, p) == Len(p) <= Len(s) /\ SubSeq(s, 1, Len(p)) = p

EndsWith(s, p) == Len(p) <= Len(s) /\ SubSeq(s, Len(s) - Len(p) + 1, Len(s)) = p

RECURSIVE Flatten(_)
\* Concatenation of a sequence of strings.
Flatten(ss) == IF ss = <<>> THEN <<>> ELSE Head(ss) \o Flatten(Tail(ss))

RECURSIVE Join(_, _)
\* Array.prototype.join.
Join(ss, sep) ==
  IF ss = <<>> THEN <<>>
  ELSE IF Len(ss) = 1 THEN ss[1]
  ELSE ss[1] \o sep \o Join(Tail(ss), sep)

RECURSIVE SplitOn(_, _)
\* String.prototype.split on a set of one-character separators: the
\* pieces between separators, empty pieces kept.
SplitOn(s, seps) ==
  IF \A i \in 1..Len(s) : s[i] \notin seps THEN <<s>>
  ELSE LET i == CHOOSE k \in 1..Len(s) :
                   s[k] \in seps /\ \A j \in 1..(k - 1) : s[j] \notin seps
       IN <<SubSeq(s, 1, i - 1)>> \o SplitOn(Drop(s, i), seps)

\* Array.prototype.includes.
Includes(seq, v) == \E i \in 1..Len(seq) : seq[i] = v

(**************************************************************************)
(* Regular expressions (the JavaScript RegExp the code builds and tests)  *)
(*                                                                        *)
(* The supported syntax is: literals, `.`, `\x` escapes (\d \w \s \b \B   *)
(* and identity escapes), character classes with ranges, groups `(...)`   *)
(* and `(?:...)`, alternation, the quantifiers * + ? (optionally lazy),   *)
(* and the assertions ^ and $.  A pattern outside this syntax that        *)
(* RegExp would reject (a dangling quantifier, an unbalanced parenthesis, *)
(* an unterminated class, a trailing backslash) is rejected here too.     *)
(**************************************************************************)

\* Printable ASCII, code 32 (space) to 126 (~), in code order (code 96 is
\* written <backtick>).
ASCII == <<" ","!","\"","#","$","%","&","'","(",")","*","+",",","-",".","/",
           "0","1","2","3","4","5","6","7","8","9",":",";","<","=",">","?",
           "@","A","B","C","D","E","F","G","H","I","J","K","L","M","N","O",
           "P","Q","R","S","T","U","V","W","X","Y","Z","[","\\","]","^","_",
           "<backtick>","a","b","c","d","e","f","g","h","i","j","k","l","m","n","o",
           "p","q","r","s","t","u","v","w","x","y","z","{","|","}","~">>

IsAscii(c) == \E i \in 1..Len(ASCII) : ASCII[i] = c

\* String.prototype.charCodeAt for a printable ASCII character.
CharCode(c) == 31 + (CHOOSE i \in 1..Len(ASCII) : ASCII[i] = c)

\* String.fromCharCode for a printable ASCII code.
FromCharCode(n) == ASCII[n - 31]

ReNode(t, c, neg, chars, kids) ==
  [t |-> t, c |-> c, neg |-> neg, chars |-> chars, kids |-> kids]

ReLeaf(t) == ReNode(t, "", FALSE, {}, <<>>)

ReLit(c) == ReNode("lit", c, FALSE, {}, <<>>)

ReClass(neg, chars) == ReNode("cls", "", neg, chars, <<>>)

ReFail == [ok |-> FALSE, n |-> ReLeaf("none"), rest |-> <<>>]

ReOk(n, rest) == [ok |-> TRUE, n |-> n, rest |-> rest]

ReQuantifiers == {"*", "+", "?"}

\* The characters of an escape class \d, \w, \s.
ReEscapeClass(c) ==
  CASE c = "d" -> {ch \in {ASCII[i] : i \in 1..Len(ASCII)} : IsDigit(ch)}
    [] c = "w" -> {ch \in {ASCII[i] : i \in 1..Len(ASCII)} : IsWordChar(ch)}
    [] OTHER   -> {" "}

\* The characters a-b of a class range; ok = FALSE when out of order.
ReRange(a, b, rest) ==
  IF IsAscii(a) /\ IsAscii(b) /\ CharCode(a) <= CharCode(b)
  THEN [ok |-> TRUE, chars |-> {FromCharCode(k) : k \in CharCode(a)..CharCode(b)},
        rest |-> rest]
  ELSE [ok |-> FALSE, chars |-> {}, rest |-> <<>>]

\* The first member of a character class whose text is s: an escaped
\* character or escape class, a range a-b, or a single character.
ReClassItem(s) ==
  IF s[1] = "\\" THEN
    IF Len(s) < 2 THEN [ok |-> FALSE, chars |-> {}, rest |-> <<>>]
    ELSE [ok |-> TRUE,
          chars |-> IF s[2] \in {"d", "w", "s"} THEN ReEscapeClass(s[2]) ELSE {s[2]},
          rest |-> Drop(s, 2)]
  ELSE IF Len(s) >= 3 /\ s[2] = "-" /\ s[3] # "]" THEN ReRange(s[1], s[3], Drop(s, 3))
  ELSE [ok |-> TRUE, chars |-> {s[1]}, rest |-> Tail(s)]

RECURSIVE ReClassItems(_, _), ReClassItemsNext(_, _)
\* The members of a character class, read up to its closing bracket.
ReClassItems(s, acc) ==
  IF s = <<>> THEN [ok |-> FALSE, chars |-> {}, rest |-> <<>>]
  ELSE IF s[1] = "]" THEN [ok |-> TRUE, chars |-> acc, rest |-> Tail(s)]
  ELSE ReClassItemsNext(ReClassItem(s), acc)

ReClassItemsNext(item, acc) ==
  IF item.ok THEN ReClassItems(item.rest, acc \cup item.chars) ELSE item

\* An atom n followed by rest: the atom under the quantifier * + ? that
\* rest starts with (optionally lazy), or the atom itself.
ReQuantified(n, rest) ==
  IF rest = <<>> \/ rest[1] \notin ReQuantifiers THEN ReOk(n, rest)
  ELSE ReOk(ReNode(CASE rest[1] = "*" -> "star" [] rest[1] = "+" -> "plus" [] OTHER -> "opt",
                   "", FALSE, {}, <<n>>),
            IF Len(rest) >= 2 /\ rest[2] = "?" THEN Drop(rest, 2) ELSE Tail(rest))

\* An assertion followed by rest: it cannot be quantified.
ReAssertion(t, rest) ==
  IF rest # <<>> /\ rest[1] \in ReQuantifiers THEN ReFail ELSE ReOk(ReLeaf(t), rest)

\* A character class whose members were read as r.
ReClassTerm(neg, r) ==
  IF r.ok THEN ReQuantified(ReClass(neg, r.chars), r.rest) ELSE ReFail

\* A group whose content was read as inner: the closing parenthesis must
\* follow.
ReGroupTerm(inner) ==
  IF inner.ok /\ inner.rest # <<>> /\ inner.rest[1] = ")"
  THEN ReQuantified(inner.n, Tail(inner.rest))
  ELSE ReFail

\* A backslash escape.
ReEscapeTerm(s) ==
  IF Len(s) < 2 THEN ReFail
  ELSE IF s[2] = "b" THEN ReAssertion("wb", Drop(s, 2))
  ELSE IF s[2] = "B" THEN ReAssertion("nwb", Drop(s, 2))
  ELSE ReQuantified(IF s[2] \in {"d", "w", "s"}
                    THEN ReClass(FALSE, ReEscapeClass(s[2])) ELSE ReLit(s[2]),
                    Drop(s, 2))

RECURSIVE ReDisjunction(_), ReDisjunctionRest(_), ReAlternative(_, _),
          ReAlternativeNext(_, _), ReTerm(_)
\* Atom Quantifier?, or an assertion.
ReTerm(s) ==
  CASE s[1] \in {"^", "$"} -> ReAssertion(IF s[1] = "^" THEN "bol" ELSE "eol", Tail(s))
    [] s[1] \in ReQuantifiers -> ReFail
    [] s[1] = ")" -> ReFail
    [] s[1] = "\\" -> ReEscapeTerm(s)
    [] s[1] = "[" ->
         ReClassTerm(Len(s) >= 2 /\ s[2] = "^",
                     ReClassItems(IF Len(s) >= 2 /\ s[2] = "^" THEN Drop(s, 2) ELSE Tail(s), {}))
    [] s[1] = "(" ->
         IF Len(s) >= 2 /\ s[2] = "?" /\ ~(Len(s) >= 3 /\ s[3] = ":") THEN ReFail
         ELSE ReGroupTerm(ReDisjunction(IF Len(s) >= 2 /\ s[2] = "?"
                                        THEN Drop(s, 3) ELSE Tail(s)))
    [] OTHER -> ReQuantified(IF s[1] = "." THEN ReLeaf("any") ELSE ReLit(s[1]), Tail(s))

\* Term*, up to a bar, a closing parenthesis or the end.
ReAlternative(s, acc) ==
  IF s = <<>> \/ s[1] \in {"|", ")"}
  THEN ReOk(ReNode("seq", "", FALSE, {}, acc), s)
  ELSE ReAlternativeNext(ReTerm(s), acc)

ReAlternativeNext(r, acc) ==
  IF r.ok THEN ReAlternative(r.rest, Append(acc, r.n)) ELSE ReFail

\* The alternation of a and b, if b was read.
ReAlt(a, b) ==
  IF b.ok THEN ReOk(ReNode("alt", "", FALSE, {}, <<a.n, b.n>>), b.rest) ELSE ReFail

\* Alternative ('|' Alternative)*.
ReDisjunction(s) == ReDisjunctionRest(ReAlternative(s, <<>>))

ReDisjunctionRest(a) ==
  IF ~a.ok THEN ReFail
  ELSE IF a.rest # <<>> /\ a.rest[1] = "|" THEN ReAlt(a, ReDisjunction(Tail(a.rest)))
  ELSE a

\* The pattern read as r is the whole source.
ReWhole(r) == IF r.ok /\ r.rest = <<>> THEN r ELSE ReFail

\* new RegExp(src): the parsed pattern, or ok = FALSE where RegExp throws
\* a SyntaxError.
RegExpNew(src) == ReWhole(ReDisjunction(src))

ReCharEq(a, b, ci) == IF ci THEN ToLowerChar(a) = ToLowerChar(b) ELSE a = b

ReAtWordBoundary(s, i) ==
  (i > 1 /\ IsWordChar(s[i - 1])) # (i <= Len(s) /\ IsWordChar(s[i]))

RECURSIVE ReEnds(_, _, _, _), ReSeqEnds(_, _, _, _, _), ReClosure(_, _, _, _, _),
          ReClosureStep(_, _, _, _, _)
\* The positions at which a match of node n that starts at position i of s
\* can end (positions run from 1 to Len(s) + 1).
ReEnds(n, s, i, ci) ==
  CASE n.t = "lit" ->
         IF i <= Len(s) /\ ReCharEq(s[i], n.c, ci) THEN {i + 1} ELSE {}
    [] n.t = "any" ->
         IF i <= Len(s) /\ s[i] # "\n" THEN {i + 1} ELSE {}
    [] n.t = "cls" ->
         IF i <= Len(s) /\ ((\E ch \in n.chars : ReCharEq(s[i], ch, ci)) # n.neg)
         THEN {i + 1} ELSE {}
    [] n.t = "bol" -> IF i = 1 THEN {i} ELSE {}
    [] n.t = "eol" -> IF i = Len(s) + 1 THEN {i} ELSE {}
    [] n.t \in {"wb", "nwb"} ->
         IF ReAtWordBoundary(s, i) = (n.t = "wb") THEN {i} ELSE {}
    [] n.t = "seq" -> ReSeqEnds(n.kids, 1, s, {i}, ci)
    [] n.t = "alt" -> UNION {ReEnds(n.kids[k], s, i, ci) : k \in 1..Len(n.kids)}
    [] n.t = "star" -> ReClosure(n.kids[1], s, {i}, {i}, ci)
    [] n.t = "plus" -> ReClosure(n.kids[1], s, {i}, {}, ci)
    [] n.t = "opt" -> {i} \cup ReEnds(n.kids[1], s, i, ci)
    [] OTHER -> {}

ReSeqEnds(kids, k, s, from, ci) ==
  IF k > Len(kids) \/ from = {} THEN from
  ELSE ReSeqEnds(kids, k + 1, s,
                 UNION {ReEnds(kids[k], s, p, ci) : p \in from}, ci)

\* The positions reached from the frontier by one or more matches of n,
\* added to acc.
ReClosure(n, s, frontier, acc, ci) ==
  ReClosureStep(n, s, UNION {ReEnds(n, s, p, ci) : p \in frontier} \ acc, acc, ci)

ReClosureStep(n, s, next, acc, ci) ==
  IF next = {} THEN acc ELSE ReClosure(n, s, next, acc \cup next, ci)

\* RegExp.prototype.test: an unanchored search.
ReTest(re, s, ci) == \E i \in 1..(Len(s) + 1) : ReEnds(re.n, s, i, ci) # {}

(**************************************************************************)
(* eval.ts: utility functions                                             *)
(**************************************************************************)

\* The least element of a set of positions, 0 for the empty set.
FirstOf(hits) == IF hits = {} THEN 0 ELSE CHOOSE i \in hits : \A j \in hits : i <= j

\* String.prototype.substring(a, b) with 0-based indices: both are clamped
\* to the string and swapped when a > b.
Substring(s, a, b) ==
  LET clamp(n) == IF n < 0 THEN 0 ELSE IF n > Len(s) THEN Len(s) ELSE n
  IN IF clamp(a) <= clamp(b) THEN SubSeq(s, clamp(a) + 1, clamp(b))
     ELSE SubSeq(s, clamp(b) + 1, clamp(a))

RegexSpecials == {".", "*", "+", "?", "^", "$", "{", "}", "(", ")", "|", "[", "]", "\\"}

NoEscapeRegex(s) == s

\* escapeRegex: every regular-expression special character gets a
\* backslash in front of it.
escapeRegex(s) ==
  Flatten([i \in 1..Len(s) |->
             IF s[i] \in RegexSpecials THEN <<"\\", s[i]>> ELSE <<s[i]>>])

RECURSIVE ReplaceAll(_, _, _)
\* s.replace(/from/g, to) for a literal `from`.
ReplaceAll(s, from, to) ==
  IF Len(s) < Len(from) THEN s
  ELSE IF SubSeq(s, 1, Len(from)) = from
       THEN to \o ReplaceAll(Drop(s, Len(from)), from, to)
       ELSE <<s[1]>> \o ReplaceAll(Tail(s), from, to)

\* The five Windows parameter dashes: hyphen, slash, en dash, em dash and
\* horizontal bar (the last three are written by name).
windowsParamDashes == <<"-", "/", "<endash>", "<emdash>", "<horizontalbar>">>

\* The first index matched by /\B[-/]\b/ in input, or 0: a dash or slash
\* that has no word boundary before it and a word boundary after it.
WindashIndex(input) ==
  FirstOf({i \in 1..Len(input) : /\ input[i] \in {"-", "/"}
                                 /\ ~ReAtWordBoundary(input, i)
                                 /\ ReAtWordBoundary(input, i + 1)})

\* input.replace(regex, dash) for each dash, the match being at index i.
WindashVariants(input, i) ==
  [k \in 1..Len(windowsParamDashes) |->
     IF i = 0 THEN input
     ELSE SubSeq(input, 1, i - 1) \o <<windowsParamDashes[k]>> \o Drop(input, i)]

\* No variants: the input alone.
NoWindashPermute(input) == <<input>>

\* windashPermute: one variant per dash, replacing the first match.
windashPermute(input) == WindashVariants(input, WindashIndex(input))

\* Buffer.from(s): the UTF-8 bytes of a string.
Utf8Bytes(s) ==
  Flatten([i \in 1..Len(s) |->
     CASE s[i] = "<endash>"        -> <<226, 128, 147>>
       [] s[i] = "<emdash>"        -> <<226, 128, 148>>
       [] s[i] = "<horizontalbar>" -> <<226, 128, 149>>
       [] s[i] = "<backtick>"      -> <<96>>
       [] OTHER                    -> <<CharCode(s[i])>>])

Base64Alphabet ==
  UPPER \o LOWER \o DIGITS \o <<"+", "/">>

RECURSIVE Base64Encode(_)
\* Buffer.prototype.toString('base64'): three bytes to four characters,
\* padded with '='.
Base64Encode(bytes) ==
  IF bytes = <<>> THEN <<>>
  ELSE IF Len(bytes) = 1 THEN
    <<Base64Alphabet[bytes[1] \div 4 + 1], Base64Alphabet[(bytes[1] % 4) * 16 + 1], "=", "=">>
  ELSE IF Len(bytes) = 2 THEN
    <<Base64Alphabet[bytes[1] \div 4 + 1],
      Base64Alphabet[(bytes[1] % 4) * 16 + bytes[2] \div 16 + 1],
      Base64Alphabet[(bytes[2] % 16) * 4 + 1], "=">>
  ELSE
    <<Base64Alphabet[bytes[1] \div 4 + 1],
      Base64Alphabet[(bytes[1] % 4) * 16 + bytes[2] \div 16 + 1],
      Base64Alphabet[(bytes[2] % 16) * 4 + bytes[3] \div 64 + 1],
      Base64Alphabet[(bytes[3] % 64) + 1]>> \o Base64Encode(Drop(bytes, 3))

\* encoded.substring(startOffset, encoded.length + endOffset).
Base64Trim(encoded, startOffset, endOffset) ==
  Substring(encoded, startOffset, Len(encoded) + endOffset)

\* The variants of base64Permute for the bytes of a non-empty input: its
\* encodings shifted by i = 0, 1 and 2 bytes, trimmed of the characters
\* the shift and the padding touch.
Base64Variants(inputBytes) ==
  [j \in 1..3 |->
     Base64Trim(Base64Encode([k \in 1..(j - 1) |-> 32] \o inputBytes),
                <<0, 2, 3>>[j],
                <<0, -3, -2>>[((Len(inputBytes) + j - 1) % 3) + 1])]

\* base64Permute: nothing for the empty input.
base64Permute(input) ==
  IF Len(input) = 0 THEN <<>> ELSE Base64Variants(Utf8Bytes(input))

(**************************************************************************)
(* The IP-address capability (package ip-address): Address4, Address6 and *)
(* isInSubnet.  IPv6 literals are modelled without zone identifiers and   *)
(* without an embedded dotted IPv4 part.                                  *)
(**************************************************************************)

RECURSIVE ParseDecimal(_)
\* The value of a string of decimal digits.
ParseDecimal(s) ==
  IF s = <<>> THEN 0 ELSE ParseDecimal(SubSeq(s, 1, Len(s) - 1)) * 10 + DigitVal(s[Len(s)])

AllDigits(s) == s # <<>> /\ \A i \in 1..Len(s) : IsDigit(s[i])

HexDigits == DIGITS \o <<"a", "b", "c", "d", "e", "f">>

IsHexDigit(c) == \E i \in 1..16 : HexDigits[i] = ToLowerChar(c)

HexVal(c) == (CHOOSE i \in 1..16 : HexDigits[i] = ToLowerChar(c)) - 1

RECURSIVE ParseHex(_)
ParseHex(s) ==
  IF s = <<>> THEN 0 ELSE ParseHex(SubSeq(s, 1, Len(s) - 1)) * 16 + HexVal(s[Len(s)])

RECURSIVE BitsOf(_, _)
\* n as a sequence of w bits, most significant first.
BitsOf(n, w) == IF w = 0 THEN <<>> ELSE BitsOf(n \div 2, w - 1) \o <<n % 2>>

NoAddress == [ok |-> FALSE, v |-> 0, bits |-> <<>>, subnetMask |-> 0]

\* The address text and the mask of s cut at the slash at index i; the
\* whole of s and the full mask when i = 0.
SubnetCut(s, i, fullMask) ==
  IF i = 0 THEN [address |-> s, mask |-> fullMask]
  ELSE [address |-> SubSeq(s, 1, i - 1), mask |-> ParseDecimal(Drop(s, i))]

\* The text before and the number after a trailing "/n" with at most
\* maxDigits digits, if there is one.
SubnetSuffix(s, maxDigits, fullMask) ==
  SubnetCut(s, FirstOf({i \in 1..Len(s) : /\ s[i] = "/"
                                           /\ Len(s) - i \in 1..maxDigits
                                           /\ AllDigits(Drop(s, i))}),
            fullMask)

\* The address of four decimal groups.
Address4Groups(groups, subnetMask) ==
  IF \/ Len(groups) # 4
     \/ \E i \in 1..Len(groups) :
          ~(AllDigits(groups[i]) /\ Len(groups[i]) <= 3 /\ ParseDecimal(groups[i]) <= 255)
  THEN NoAddress
  ELSE [ok |-> TRUE, v |-> 4,
        bits |-> Flatten([i \in 1..4 |-> BitsOf(ParseDecimal(groups[i]), 8)]),
        subnetMask |-> subnetMask]

Address4Of(sub) ==
  IF sub.mask > 32 THEN NoAddress
  ELSE Address4Groups(SplitOn(sub.address, {"."}), sub.mask)

\* new Address4(s): four decimal groups of at most three digits and value
\* at most 255, with an optional /0../32 suffix; ok = FALSE where the
\* constructor throws.
Address4(s) == Address4Of(SubnetSuffix(s, 2, 32))

\* The groups between the colons of x, none for the empty text.
ColonGroups(x) == IF x = <<>> THEN <<>> ELSE SplitOn(x, {":"})

\* The address of eight hexadecimal groups.
Address6Groups(groups, subnetMask) ==
  IF \/ Len(groups) # 8
     \/ \E i \in 1..Len(groups) : groups[i] = <<>> \/ Len(groups[i]) > 4
  THEN NoAddress
  ELSE [ok |-> TRUE, v |-> 6,
        bits |-> Flatten([i \in 1..8 |-> BitsOf(ParseHex(groups[i]), 16)]),
        subnetMask |-> subnetMask]

\* The groups before and after a double colon, with the zero groups it
\* stands for between them (at least one).
Address6Elided(first, last) ==
  IF Len(first) + Len(last) >= 8 THEN <<>>
  ELSE first \o [k \in 1..(8 - (Len(first) + Len(last))) |-> <<"0">>] \o last

\* The eight groups of the address text a, whose double colons start at
\* the positions dc; none when they cannot be told.
Address6Expand(a, dc) ==
  IF Cardinality(dc) > 1 THEN <<>>
  ELSE IF dc = {} THEN ColonGroups(a)
  ELSE Address6Elided(ColonGroups(SubSeq(a, 1, FirstOf(dc) - 1)),
                      ColonGroups(Drop(a, FirstOf(dc) + 1)))

Address6Of(sub) ==
  IF sub.mask > 128 THEN NoAddress
  ELSE IF \E i \in 1..Len(sub.address) :
            ~IsHexDigit(sub.address[i]) /\ sub.address[i] # ":"
  THEN NoAddress
  ELSE Address6Groups(
         Address6Expand(sub.address,
                        {i \in 1..(Len(sub.address) - 1) :
                           sub.address[i] = ":" /\ sub.address[i + 1] = ":"}),
         sub.mask)

\* new Address6(s): groups of at most four hexadecimal digits separated by
\* colons, at most one "::" standing for the missing zero groups, with an
\* optional /0../128 suffix; ok = FALSE where the constructor throws.
Address6(s) == Address6Of(SubnetSuffix(s, 3, 128))

\* The address the code obtains from new Address4(s) and, when that
\* throws, from new Address6(s); ok = FALSE when both throw.
AddressOr6(a4, s) == IF a4.ok THEN a4 ELSE Address6(s)

ParseAddress(s) == AddressOr6(Address4(s), s)

InEverySubnet(addr, net) == TRUE

\* addr.isInSubnet(net) for two addresses of one family.
isInSubnet(addr, net) ==
  IF addr.subnetMask < net.subnetMask THEN FALSE
  ELSE SubSeq(addr.bits, 1, net.subnetMask) = SubSeq(net.bits, 1, net.subnetMask)

(**************************************************************************)
(* eval.ts: the expression tree.                                          *)
(*                                                                        *)
(* Expression objects live in a heap, a sequence of nodes whose children  *)
(* are heap indices, so that an object referenced from two places (a      *)
(* NamedExpr of the identifier table used twice in a condition) is one    *)
(* object, and a push onto a node's child array is visible to everything  *)
(* that references the node.                                              *)
(**************************************************************************)

mAll          == <<"a","l","l">>
mBase64       == <<"b","a","s","e","6","4">>
mBase64offset == <<"b","a","s","e","6","4","o","f","f","s","e","t">>
mCidr         == <<"c","i","d","r">>
mContains     == <<"c","o","n","t","a","i","n","s">>
mEndswith     == <<"e","n","d","s","w","i","t","h">>
mExpand       == <<"e","x","p","a","n","d">>
mRe           == <<"r","e">>
mStartswith   == <<"s","t","a","r","t","s","w","i","t","h">>
mWindash      == <<"w","i","n","d","a","s","h">>

\* The matcher _compile builds: the parsed networks of the cidr branch, or
\* the sources of the case-insensitive regular expressions, all of which
\* ("all") or the one of which ("any") must match.
NoCompiled == [kind |-> "none", cidrMatchers |-> <<>>, regexes |-> <<>>]

\* JSON.stringify of a string: in double quotes, with a backslash before
\* a double quote and a backslash and the short escapes of the control
\* characters.
JsonString(s) ==
  <<"\"">> \o Flatten([i \in 1..Len(s) |->
                         CASE s[i] \in {"\"", "\\"} -> <<"\\", s[i]>>
                           [] s[i] = "\n" -> <<"\\", "n">>
                           [] s[i] = "\t" -> <<"\\", "t">>
                           [] s[i] = "\r" -> <<"\\", "r">>
                           [] OTHER -> <<s[i]>>]) \o <<"\"">>

\* JSON.stringify of an array of strings.
JsonStrings(ss) ==
  <<"[">> \o Join([k \in 1..Len(ss) |-> JsonString(ss[k])], <<",">>) \o <<"]">>

\* A cache key that leaves the patterns out.
KeyWithoutPatterns(patterns, modifiers, field) ==
  Str("{\"modifiers\":") \o JsonStrings(modifiers)
    \o (IF field = UNDEF THEN <<>> ELSE Str(",\"field\":") \o JsonString(field)) \o <<"}">>

\* JSON.stringify({patterns, modifiers, field}): the text of the object,
\* an undefined field being left out of it.
CacheKey(patterns, modifiers, field) ==
  Str("{\"patterns\":") \o JsonStrings(patterns)
    \o Str(",\"modifiers\":") \o JsonStrings(modifiers)
    \o (IF field = UNDEF THEN <<>> ELSE Str(",\"field\":") \o JsonString(field)) \o <<"}">>

\* SearchAtom._compiledCache before the first _compile.
NoCache == [has |-> FALSE, key |-> <<>>, compiled |-> NoCompiled]

ExprNode(k, name, x, field, modifiers, patterns) ==
  [k |-> k, name |-> name, x |-> x, field |-> field, modifiers |-> modifiers,
   patterns |-> patterns, _compiledCache |-> NoCache]

\* The constructors of NamedExpr, NotExpr, AndExpr, OrExpr and SearchAtom
\* (x holds heap indices).
NamedExpr(name, x) == ExprNode("NamedExpr", name, <<x>>, UNDEF, <<>>, <<>>)

NotExpr(x) == ExprNode("NotExpr", <<>>, <<x>>, UNDEF, <<>>, <<>>)

AndExpr(x) == ExprNode("AndExpr", <<>>, x, UNDEF, <<>>, <<>>)

OrExpr(x) == ExprNode("OrExpr", <<>>, x, UNDEF, <<>>, <<>>)

SearchAtom(field, modifiers, patterns) ==
  ExprNode("SearchAtom", <<>>, <<>>, field, modifiers, patterns)

\* !this.field: undefined or the empty string.
NoField(atom) == atom.field = UNDEF \/ atom.field = <<>>

\* A modifier loop that accepts every token.
AnyModifierAccepted(atom, i, patternType, expand) ==
  [err |-> "", patternType |-> patternType, expand |-> expand]

RECURSIVE ValidateModifiers(_, _, _, _)
\* The modifier loop of validate, from modifier i on: the error, or the
\* pattern type and the expand flag it ends with.
ValidateModifiers(atom, i, patternType, expand) ==
  IF i > Len(atom.modifiers)
  THEN [err |-> "", patternType |-> patternType, expand |-> expand]
  ELSE CASE atom.modifiers[i] = mRe   -> ValidateModifiers(atom, i + 1, "re", expand)
         [] atom.modifiers[i] = mCidr -> ValidateModifiers(atom, i + 1, "cidr", expand)
         [] atom.modifiers[i] \in {mContains, mAll, mStartswith, mEndswith, mWindash,
                                   mBase64, mBase64offset}
              -> ValidateModifiers(atom, i + 1, patternType, expand)
         [] atom.modifiers[i] = mExpand ->
              IF i # 1
              THEN [err |-> "expand can only be the first modifier",
                    patternType |-> patternType, expand |-> TRUE]
              ELSE IF \E k \in 1..Len(atom.patterns) :
                        \/ ~StartsWith(atom.patterns[k], <<"%">>)
                        \/ ~EndsWith(atom.patterns[k], <<"%">>)
              THEN [err |-> "placeholder must start and end with '%'",
                    patternType |-> patternType, expand |-> TRUE]
              ELSE ValidateModifiers(atom, i + 1, patternType, TRUE)
         [] OTHER -> [err |-> "unknown modifier",
                      patternType |-> patternType, expand |-> expand]

\* The pattern checks of validate, after the modifier loop ended as m.
ValidatePatterns(atom, m) ==
  IF m.err # "" THEN m.err
  ELSE IF m.expand THEN ""
  ELSE IF m.patternType = "re" THEN
    IF \E k \in 1..Len(atom.patterns) : ~RegExpNew(atom.patterns[k]).ok
    THEN "pattern: invalid regular expression" ELSE ""
  ELSE IF m.patternType = "cidr" THEN
    IF \E k \in 1..Len(atom.patterns) : ~ParseAddress(atom.patterns[k]).ok
    THEN "pattern: not a valid CIDR" ELSE ""
  ELSE ""

\* SearchAtom.validate: "" for null, otherwise the error.
validate(atom) ==
  IF Len(atom.patterns) = 0 THEN "no patterns"
  ELSE ValidatePatterns(atom, ValidateModifiers(atom, 1, "glob", FALSE))

\* placeholders[name] of the table given to exprMatches, the empty list
\* when it is missing: a table is a sequence of [name, values] entries
\* with distinct names.
PlaceholderValues(placeholders, name) ==
  IF placeholders.has /\ \E i \in 1..Len(placeholders.tab) : placeholders.tab[i].name = name
  THEN placeholders.tab[CHOOSE i \in 1..Len(placeholders.tab) :
                          placeholders.tab[i].name = name].values
  ELSE <<>>

LiteralPatterns(atom, placeholders) == atom.patterns

\* SearchAtom._expandPatterns.
_expandPatterns(atom, placeholders) ==
  IF Includes(atom.modifiers, mExpand)
  THEN Flatten([k \in 1..Len(atom.patterns) |->
         PlaceholderValues(placeholders,
                           Substring(atom.patterns[k], 1, Len(atom.patterns[k]) - 1))])
  ELSE atom.patterns

\* (?:p)
Group(p) == <<"(", "?", ":">> \o p \o <<")">>

\* The source of a glob: escaped, then \* and \? turned into .* and .
GlobSource(p) ==
  ReplaceAll(ReplaceAll(escapeRegex(p), <<"\\", "*">>, <<".", "*">>),
             <<"\\", "?">>, <<".">>)

\* The source of the windash variants: the alternation of their escapes.
WindashSource(variants) ==
  Group(Join([k \in 1..Len(variants) |-> escapeRegex(variants[k])], <<"|">>))

AnchoredBothEnds(atom, p) == <<"^">> \o Group(p) \o <<"$">>

\* The anchors processPattern puts around the source p.
Anchored(atom, p) ==
  (IF NoField(atom) \/ Includes(atom.modifiers, mContains) \/ Includes(atom.modifiers, mEndswith)
   THEN <<>> ELSE <<"^">>)
  \o Group(p) \o
  (IF NoField(atom) \/ Includes(atom.modifiers, mContains) \/ Includes(atom.modifiers, mStartswith)
   THEN <<>> ELSE <<"$">>)

\* processPattern of _compile: the regular-expression source of one
\* pattern.
processPattern(atom, pattern) ==
  IF Includes(atom.modifiers, mRe) THEN Group(pattern)
  ELSE IF Includes(atom.modifiers, mBase64offset)
  THEN Group(Join(base64Permute(pattern), <<"|">>))
  ELSE IF Includes(atom.modifiers, mWindash)
  THEN Anchored(atom, WindashSource(windashPermute(
         IF Includes(atom.modifiers, mBase64) THEN Base64Encode(Utf8Bytes(pattern))
         ELSE pattern)))
  ELSE Anchored(atom, GlobSource(
         IF Includes(atom.modifiers, mBase64) THEN Base64Encode(Utf8Bytes(pattern))
         ELSE pattern))

\* The regular expressions of the non-cidr branch of _compile: one per
\* pattern under `all`, otherwise one for the alternation of all sources.
CompileRegexes(atom, sources) ==
  IF Includes(atom.modifiers, mAll) THEN sources ELSE <<Join(sources, <<"|">>)>>

\* The matcher with the regular expressions made by new RegExp(source,
\* 'i'); threw when one of the sources is rejected.
RegexMatcher(kind, regexes) ==
  IF \E k \in 1..Len(regexes) : ~regexes[k].ok
  THEN [threw |-> TRUE, m |-> NoCompiled]
  ELSE [threw |-> FALSE,
        m |-> [kind |-> kind, cidrMatchers |-> <<>>,
               regexes |-> [k \in 1..Len(regexes) |-> regexes[k].n]]]

\* The matcher _compile builds for the patterns.
BuildMatcher(atom, patterns, sources) ==
  IF Includes(atom.modifiers, mCidr)
  THEN [threw |-> FALSE,
        m |-> [kind |-> "cidr",
               cidrMatchers |-> SelectSeq([k \in 1..Len(patterns) |-> ParseAddress(patterns[k])],
                                          LAMBDA c : c.ok),
               regexes |-> <<>>]]
  ELSE RegexMatcher(IF Includes(atom.modifiers, mAll) THEN "all" ELSE "any",
                    [k \in 1..Len(sources) |-> RegExpNew(sources[k])])

\* The end of _compile: the matcher is stored under the key and returned,
\* unless building it threw.
Compiled(atom, cacheKey, built) ==
  IF built.threw
  THEN [threw |-> TRUE, compiled |-> NoCompiled, cache |-> atom._compiledCache]
  ELSE [threw |-> FALSE, compiled |-> built.m,
        cache |-> [has |-> TRUE, key |-> cacheKey, compiled |-> built.m]]

\* _compile with its cache key: the cached matcher is returned when the
\* key is the stored one.
CompileKeyed(atom, patterns, cacheKey) ==
  IF atom._compiledCache.has /\ atom._compiledCache.key = cacheKey
  THEN [threw |-> FALSE, compiled |-> atom._compiledCache.compiled,
        cache |-> atom._compiledCache]
  ELSE Compiled(atom, cacheKey,
         BuildMatcher(atom, patterns,
           IF Includes(atom.modifiers, mCidr) THEN <<>>
           ELSE CompileRegexes(atom, [k \in 1..Len(patterns) |->
                                        processPattern(atom, patterns[k])])))

\* SearchAtom._compile: [threw, compiled, cache].
_compile(atom, patterns) ==
  CompileKeyed(atom, patterns, CacheKey(patterns, atom.modifiers, atom.field))

\* The cidr matcher on the address parsed from the candidate.
CidrMatches(compiled, addr) ==
  /\ addr.ok
  /\ \E k \in 1..Len(compiled.cidrMatchers) :
       /\ compiled.cidrMatchers[k].v = addr.v
       /\ isInSubnet(addr, compiled.cidrMatchers[k])

\* compiled.matches(s).
CompiledMatches(compiled, s) ==
  IF compiled.kind = "cidr" THEN CidrMatches(compiled, ParseAddress(s))
  ELSE \A k \in (IF compiled.kind = "all" THEN 1..Len(compiled.regexes) ELSE {1}) :
         ReTest([n |-> compiled.regexes[k]], s, TRUE)

\* The field lookup of SearchAtom.exprMatches: the message for an atom
\* without a field, otherwise the value of the first key of entry.fields
\* that equals the field name in lower case, or "" when there is none.
FieldValue(entry, i) == IF i = 0 THEN <<>> ELSE entry.fields[i].value

FieldContent(atom, entry) ==
  IF NoField(atom) THEN entry.message
  ELSE FieldValue(entry, FirstOf({i \in 1..Len(entry.fields) :
                                    ToLowerCase(entry.fields[i].key) = ToLowerCase(atom.field)}))

\* The end of SearchAtom.exprMatches: the matcher is applied.
AtomMatchesCompiled(atom, fieldContent, c) ==
  IF c.threw THEN [r |-> "throw", atom |-> atom]
  ELSE [r |-> IF CompiledMatches(c.compiled, fieldContent) THEN "true" ELSE "false",
        atom |-> [atom EXCEPT !._compiledCache = c.cache]]

AtomMatchesPatterns(atom, fieldContent, patterns) ==
  IF Len(patterns) = 0 THEN [r |-> "false", atom |-> atom]
  ELSE AtomMatchesCompiled(atom, fieldContent, _compile(atom, patterns))

\* SearchAtom.exprMatches: [r, atom], r one of "true", "false", "throw" and
\* atom the atom with its cache as the call leaves it.
AtomExprMatches(atom, entry, placeholders) ==
  IF validate(atom) # "" THEN [r |-> "false", atom |-> atom]
  ELSE AtomMatchesPatterns(atom, FieldContent(atom, entry),
                           _expandPatterns(atom, placeholders))

\* The heap after the atom at index id ran exprMatches with outcome a.
AtomResult(heap, id, a) == [r |-> a.r, heap |-> [heap EXCEPT ![id] = a.atom]]

\* !b for the outcome of a call.
Negated(c) ==
  [r |-> CASE c.r = "true" -> "false" [] c.r = "false" -> "true" [] OTHER -> "throw",
   heap |-> c.heap]

RECURSIVE exprMatches(_, _, _, _), ExprMatchesLoop(_, _, _, _, _, _),
          ExprMatchesNext(_, _, _, _, _, _)
\* expr.exprMatches(entry, opts) for the node at heap index id: [r, heap].
exprMatches(heap, id, entry, placeholders) ==
  CASE heap[id].k = "NamedExpr" -> exprMatches(heap, heap[id].x[1], entry, placeholders)
    [] heap[id].k = "NotExpr" ->
         Negated(exprMatches(heap, heap[id].x[1], entry, placeholders))
    [] heap[id].k = "AndExpr" ->
         ExprMatchesLoop(heap, heap[id].x, 1, "false", entry, placeholders)
    [] heap[id].k = "OrExpr" ->
         ExprMatchesLoop(heap, heap[id].x, 1, "true", entry, placeholders)
    [] OTHER -> AtomResult(heap, id, AtomExprMatches(heap[id], entry, placeholders))

\* The loop of AndExpr.exprMatches (stop = "false") and OrExpr.exprMatches
\* (stop = "true") from child i on: the first child whose result is `stop`
\* ends the loop with it; when no child does, the result is the other
\* boolean.
ExprMatchesLoop(heap, x, i, stop, entry, placeholders) ==
  IF i > Len(x)
  THEN [r |-> IF stop = "true" THEN "false" ELSE "true", heap |-> heap]
  ELSE ExprMatchesNext(exprMatches(heap, x[i], entry, placeholders),
                       x, i, stop, entry, placeholders)

ExprMatchesNext(c, x, i, stop, entry, placeholders) ==
  IF c.r = stop \/ c.r = "throw" THEN c
  ELSE ExprMatchesLoop(c.heap, x, i + 1, stop, entry, placeholders)

(**************************************************************************)
(* The document YAML.parse returns: JavaScript values.  An array is a     *)
(* sequence of items with empty keys, an object a sequence of [key,       *)
(* value] items in insertion order with distinct keys.                    *)
(**************************************************************************)

JSValue(t, s, n, items) == [t |-> t, s |-> s, n |-> n, items |-> items]

JUndefined == JSValue("undefined", <<>>, 0, <<>>)

JNull == JSValue("null", <<>>, 0, <<>>)

JString(s) == JSValue("string", s, 0, <<>>)

JNumber(n) == JSValue("number", <<>>, n, <<>>)

JBoolean(b) == JSValue("boolean", <<>>, IF b THEN 1 ELSE 0, <<>>)

JArray(values) ==
  JSValue("array", <<>>, 0, [i \in 1..Len(values) |-> [key |-> <<>>, value |-> values[i]]])

JObject(items) == JSValue("object", <<>>, 0, items)

KV(key, value) == [key |-> key, value |-> value]

\* The truthiness of a value (what `if (v)` and `!v` test).
Truthy(v) ==
  CASE v.t \in {"undefined", "null"} -> FALSE
    [] v.t = "string" -> v.s # <<>>
    [] v.t \in {"number", "boolean"} -> v.n # 0
    [] OTHER -> TRUE

\* obj[key]: the property of an object, undefined when there is none (and
\* for the non-objects of the model, which have no such property).
Get(obj, key) ==
  IF obj.t = "object" /\ \E i \in 1..Len(obj.items) : obj.items[i].key = key
  THEN obj.items[CHOOSE i \in 1..Len(obj.items) : obj.items[i].key = key].value
  ELSE JUndefined

RECURSIVE NatToString(_)
\* String(n) for a natural number.
NatToString(n) ==
  IF n < 10 THEN <<DIGITS[n + 1]>> ELSE NatToString(n \div 10) \o <<DIGITS[(n % 10) + 1]>>

\* String(v) for a string, number or boolean.
ToStringValue(v) ==
  CASE v.t = "string" -> v.s
    [] v.t = "number" -> NatToString(v.n)
    [] OTHER -> IF v.n # 0 THEN <<"t","r","u","e">> ELSE <<"f","a","l","s","e">>

IsScalar(v) == v.t \in {"string", "number", "boolean"}

\* utils.ts listOfStrings.
listOfStrings(raw) ==
  IF raw.t \in {"undefined", "null"} THEN <<>>
  ELSE IF raw.t = "string" THEN <<raw.s>>
  ELSE IF raw.t = "array" THEN
    IF \A i \in 1..Len(raw.items) : raw.items[i].value.t = "string"
    THEN [i \in 1..Len(raw.items) |-> raw.items[i].value.s]
    ELSE <<>>
  ELSE <<>>

(**************************************************************************)
(* date.ts: SigmaDate                                                     *)
(**************************************************************************)

NaN == -1

\* The length of the longest prefix of s made of characters of chars.
Span(s, chars) ==
  CHOOSE n \in 0..Len(s) :
    /\ \A i \in 1..n : s[i] \in chars
    /\ (n = Len(s) \/ s[n + 1] \notin chars)

\* parseInt of a text that starts with n digits.
ParseIntDigits(u, n) == IF n = 0 THEN NaN ELSE ParseDecimal(SubSeq(u, 1, n))

\* parseInt(s, 10): leading blanks and an optional plus sign are skipped,
\* the leading digits are read, anything after them is ignored; NaN when
\* there is no digit.
ParseIntUnsigned(u) == ParseIntDigits(u, Span(u, {DIGITS[i] : i \in 1..10}))

ParseIntTrimmed(t) == ParseIntUnsigned(IF t # <<>> /\ t[1] = "+" THEN Tail(t) ELSE t)

ParseInt(s) == ParseIntTrimmed(Drop(s, Span(s, {" "})))

IsLeapYear(y) == (y % 4 = 0 /\ y % 100 # 0) \/ y % 400 = 0

DaysInMonth(y, m) ==
  IF m = 2 THEN (IF IsLeapYear(y) THEN 29 ELSE 28)
  ELSE IF m \in {4, 6, 9, 11} THEN 30 ELSE 31

\* new SigmaDate(year, month, day), for the arguments parse passes on
\* (year >= 100, month in 1..12, day in 1..31): the fields are read back
\* from new Date(Date.UTC(year, month - 1, day)), which carries a day
\* beyond the end of the month into the next month.
SigmaDate(year, month, day) ==
  IF day <= DaysInMonth(year, month)
  THEN [year |-> year, month |-> month, day |-> day]
  ELSE [year |-> year, month |-> month + 1, day |-> day - DaysInMonth(year, month)]

NoDate == [year |-> 0, month |-> 0, day |-> 0]

\* The checks of SigmaDate.parse on the three numbers.
SigmaDateChecked(year, month, day) ==
  IF year = NaN \/ month = NaN \/ day = NaN
  THEN [err |-> "invalid date component", date |-> NoDate]
  ELSE IF year < 100 THEN [err |-> "short years not allowed", date |-> NoDate]
  ELSE IF month < 1 \/ month > 12 THEN [err |-> "invalid month", date |-> NoDate]
  ELSE IF day < 1 \/ day > 31 THEN [err |-> "invalid day", date |-> NoDate]
  ELSE [err |-> "", date |-> SigmaDate(year, month, day)]

SigmaDateParts(parts) ==
  IF Len(parts) # 3 THEN [err |-> "unknown format", date |-> NoDate]
  ELSE SigmaDateChecked(ParseInt(parts[1]), ParseInt(parts[2]), ParseInt(parts[3]))

\* SigmaDate.parse: [err, date]; every failure throws a plain Error.
SigmaDateParse(s) == SigmaDateParts(SplitOn(s, {"/", "-"}))

\* String.prototype.padStart(n, '0').
PadStart(s, n) == [i \in 1..(n - Len(s)) |-> "0"] \o s

\* SigmaDate.toString: YYYY/MM/DD, zero-padded.
SigmaDateToString(d) ==
  PadStart(NatToString(d.year), 4) \o <<"/">> \o PadStart(NatToString(d.month), 2)
    \o <<"/">> \o PadStart(NatToString(d.day), 2)

(**************************************************************************)
(* date.ts: ConditionParser                                               *)
(**************************************************************************)

tAnd  == <<"a","n","d">>
tOr   == <<"o","r">>
tNot  == <<"n","o","t">>
tOne  == <<"1">>
tAll  == <<"a","l","l">>
tOf   == <<"o","f">>
tThem == <<"t","h","e","m">>

\* The result of a parser method: the error thrown (class "" when none),
\* the expression returned (a heap index), the rest of the input (this.s)
\* and the heap.
Parsed(v, s, heap) == [cls |-> "", msg |-> "", v |-> v, s |-> s, heap |-> heap]

Thrown(cls, msg) == [cls |-> cls, msg |-> msg, v |-> 0, s |-> <<>>, heap |-> <<>>]

Delims == {"(", ")", "|"}

\* String.prototype.trimStart.
TrimStart(s) ==
  Drop(s, CHOOSE k \in 0..Len(s) :
            /\ \A i \in 1..k : IsSpace(s[i])
            /\ (k = Len(s) \/ ~IsSpace(s[k + 1])))

\* The word token that ends before position stop (0: at the end of s).
LexWord(s, stop) ==
  IF stop = 0 THEN [tok |-> s, s |-> <<>>]
  ELSE [tok |-> SubSeq(s, 1, stop - 1), s |-> Drop(s, stop - 1)]

\* lex after trimStart.
LexTrimmed(s) ==
  IF s = <<>> THEN [tok |-> <<>>, s |-> s]
  ELSE IF s[1] \in Delims THEN [tok |-> <<s[1]>>, s |-> Tail(s)]
  ELSE LexWord(s, FirstOf({i \in 1..Len(s) : s[i] \in Delims \/ IsSpace(s[i])}))

\* ConditionParser.lex: the next token ("" at the end) and the input left.
lex(s0) == LexTrimmed(TrimStart(s0))

SwappedOperatorPrecedence(tok) ==
  IF tok = tAnd THEN 0 ELSE IF tok = tOr THEN 1 ELSE -1

\* ConditionParser.operatorPrecedence.
operatorPrecedence(tok) ==
  IF tok = tAnd THEN 1 ELSE IF tok = tOr THEN 0 ELSE -1

\* this.identifiers.get(tok): identifiers is the table in insertion order,
\* a sequence of [name, id].
HasIdentifier(identifiers, tok) ==
  \E i \in 1..Len(identifiers) : identifiers[i].name = tok

IdentifierOf(identifiers, tok) ==
  identifiers[CHOOSE i \in 1..Len(identifiers) : identifiers[i].name = tok].id

\* The expressions of a list of table rows.
IdsOf(rows) == [i \in 1..Len(rows) |-> rows[i].id]

QuantifierAsOr(tok, filteredIdentifiers, s, heap) ==
  IF Len(filteredIdentifiers) = 0
  THEN Thrown("SigmaError", "did not match any identifiers")
  ELSE Parsed(Len(heap) + 1, s, Append(heap, OrExpr(filteredIdentifiers)))

\* A quantifier that puts an Or or And around a single identifier too.
QuantifierNoCollapse(tok, filteredIdentifiers, s, heap) ==
  IF Len(filteredIdentifiers) = 0
  THEN Thrown("SigmaError", "did not match any identifiers")
  ELSE IF tok = tOne
  THEN Parsed(Len(heap) + 1, s, Append(heap, OrExpr(filteredIdentifiers)))
  ELSE Parsed(Len(heap) + 1, s, Append(heap, AndExpr(filteredIdentifiers)))

\* The end of the quantifier branch of unary: the expression built from
\* the identifiers selected.
QuantifierOver(tok, filteredIdentifiers, s, heap) ==
  IF Len(filteredIdentifiers) = 0
  THEN Thrown("SigmaError", "did not match any identifiers")
  ELSE IF Len(filteredIdentifiers) = 1
  THEN Parsed(filteredIdentifiers[1], s, heap)
  ELSE IF tok = tOne
  THEN Parsed(Len(heap) + 1, s, Append(heap, OrExpr(filteredIdentifiers)))
  ELSE Parsed(Len(heap) + 1, s, Append(heap, AndExpr(filteredIdentifiers)))

\* The quantifier over the identifiers whose name the regex matches; new
\* RegExp throws a SyntaxError for an invalid source.
QuantifierRegex(tok, regex, s, heap, identifiers) ==
  IF ~regex.ok THEN Thrown("SyntaxError", "invalid regular expression")
  ELSE QuantifierOver(tok,
         IdsOf(SelectSeq(identifiers, LAMBDA e : ReTest(regex, e.name, FALSE))),
         s, heap)

\* The quantifier branch of unary, after `1 of` / `all of` and the pattern
\* word.
Quantifier(tok, pattern, s, heap, identifiers) ==
  IF pattern = tThem THEN QuantifierOver(tok, IdsOf(identifiers), s, heap)
  ELSE QuantifierRegex(tok,
         RegExpNew(<<"^">> \o ReplaceAll(pattern, <<"*">>, <<".", "*">>) \o <<"$">>),
         s, heap, identifiers)

\* unary after `1` / `all` and the next token.
UnaryPattern(tok, pattern, heap, identifiers) ==
  IF pattern.tok = <<>> THEN Thrown("SigmaError", "expected word after of")
  ELSE Quantifier(tok, pattern.tok, pattern.s, heap, identifiers)

UnaryOf(tok, of, heap, identifiers) ==
  IF of.tok # tOf THEN Thrown("SigmaError", "expected of")
  ELSE UnaryPattern(tok, lex(of.s), heap, identifiers)

\* unary after `(` and the expression x: the closing parenthesis.
UnaryClosing(x, closing) ==
  IF closing.tok # <<")">> THEN Thrown("SigmaError", "missing ')'")
  ELSE Parsed(x.v, closing.s, x.heap)

UnaryParen(x) == IF x.cls # "" THEN x ELSE UnaryClosing(x, lex(x.s))

\* unary after `not` and the operand x.
UnaryNot(x) ==
  IF x.cls # "" THEN x
  ELSE Parsed(Len(x.heap) + 1, x.s, Append(x.heap, NotExpr(x.v)))

RECURSIVE expr(_, _, _), unary(_, _, _), UnaryToken(_, _, _),
          binaryTrail(_, _, _, _, _), BinaryTrailOp(_, _, _, _, _, _),
          BinaryTrailOperand(_, _, _, _, _), BinaryTrailCombine(_, _, _, _, _),
          BinaryTrailLookahead(_, _, _, _, _), LookaheadOp(_, _, _, _, _, _),
          LookaheadNext(_, _, _)

\* ConditionParser.unary on the input s0.
unary(s0, heap, identifiers) == UnaryToken(lex(s0), heap, identifiers)

\* unary after its first token l.
UnaryToken(l, heap, identifiers) ==
  IF l.tok = <<>> THEN Thrown("SigmaError", "unexpected end of condition")
  ELSE IF l.tok = <<"(">> THEN UnaryParen(expr(l.s, heap, identifiers))
  ELSE IF l.tok = tNot THEN UnaryNot(unary(l.s, heap, identifiers))
  ELSE IF l.tok \in {tOne, tAll} THEN UnaryOf(l.tok, lex(l.s), heap, identifiers)
  ELSE IF ~HasIdentifier(identifiers, l.tok)
  THEN Thrown("SigmaError", "unknown search identifier")
  ELSE Parsed(IdentifierOf(identifiers, l.tok), l.s, heap)

\* expr after its first operand x.
ExprTrail(x, identifiers) ==
  IF x.cls # "" THEN x ELSE binaryTrail(x.s, x.heap, identifiers, x.v, 0)

\* ConditionParser.expr.
expr(s0, heap, identifiers) == ExprTrail(unary(s0, heap, identifiers), identifiers)

\* ConditionParser.binaryTrail(x, minPrecedence) on the input originalS:
\* one turn of the outer loop, then the next.
binaryTrail(originalS, heap, identifiers, x, minPrecedence) ==
  BinaryTrailOp(originalS, lex(originalS), heap, identifiers, x, minPrecedence)

\* The outer loop after lexing the operator l.
BinaryTrailOp(originalS, l, heap, identifiers, x, minPrecedence) ==
  IF l.tok = <<>> THEN Parsed(x, l.s, heap)
  ELSE IF l.tok = <<"|">>
  THEN Thrown("SigmaAggregationNotSupportedError", "aggregation expressions not supported")
  ELSE IF operatorPrecedence(l.tok) < minPrecedence THEN Parsed(x, originalS, heap)
  ELSE BinaryTrailOperand(l.tok, unary(l.s, heap, identifiers), identifiers, x,
                          minPrecedence)

\* The outer loop after the operand y0 of the operator op.
BinaryTrailOperand(op, y0, identifiers, x, minPrecedence) ==
  IF y0.cls # "" THEN y0
  ELSE BinaryTrailCombine(op,
         BinaryTrailLookahead(y0.s, y0.heap, identifiers, y0.v, operatorPrecedence(op)),
         identifiers, x, minPrecedence)

\* The end of one turn of the outer loop: y is pushed onto x when x is an
\* expression of the operator's class (in place: the heap node changes,
\* x stays the same object), and a new expression is built otherwise.
BinaryTrailCombine(op, y, identifiers, x, minPrecedence) ==
  IF y.cls # "" THEN y
  ELSE IF op \notin {tAnd, tOr}
  THEN binaryTrail(y.s, y.heap, identifiers, x, minPrecedence)
  ELSE IF y.heap[x].k = (IF op = tAnd THEN "AndExpr" ELSE "OrExpr")
  THEN binaryTrail(y.s, [y.heap EXCEPT ![x].x = Append(@, y.v)], identifiers, x,
                   minPrecedence)
  ELSE binaryTrail(y.s,
                   Append(y.heap, IF op = tAnd THEN AndExpr(<<x, y.v>>)
                                  ELSE OrExpr(<<x, y.v>>)),
                   identifiers, Len(y.heap) + 1, minPrecedence)

\* The inner loop of binaryTrail on the input nextOpS: y grows while the
\* next operator binds tighter than precedence.
BinaryTrailLookahead(nextOpS, heap, identifiers, y, precedence) ==
  LookaheadOp(nextOpS, lex(nextOpS), heap, identifiers, y, precedence)

LookaheadOp(nextOpS, l, heap, identifiers, y, precedence) ==
  IF l.tok = <<>> THEN Parsed(y, l.s, heap)
  ELSE IF operatorPrecedence(l.tok) <= precedence THEN Parsed(y, nextOpS, heap)
  ELSE LookaheadNext(binaryTrail(nextOpS, heap, identifiers, y, precedence + 1),
                     identifiers, precedence)

LookaheadNext(b, identifiers, precedence) ==
  IF b.cls # "" THEN b
  ELSE BinaryTrailLookahead(b.s, b.heap, identifiers, b.v, precedence)

\* A parse that returns the first expression and ignores what follows.
ParseEndLenient(e) == e

\* ConditionParser.parse after expr: a token left over is an error.
ParseEnd(e) ==
  IF e.cls # "" THEN e
  ELSE IF lex(e.s).tok # <<>> THEN Thrown("SigmaError", "condition: unexpected token")
  ELSE e

\* parseCondition: the expression of a condition over the identifier
\* table.
parseCondition(condition, heap, identifiers) ==
  ParseEnd(expr(condition, heap, identifiers))

(**************************************************************************)
(* date.ts: parseRule, parseDetection, parseSearchMap                     *)
(**************************************************************************)

kCondition == <<"c","o","n","d","i","t","i","o","n">>
kTimeframe == <<"t","i","m","e","f","r","a","m","e">>
kDetection == <<"d","e","t","e","c","t","i","o","n">>
kTitle     == <<"t","i","t","l","e">>
kDate      == <<"d","a","t","e">>
kModified  == <<"m","o","d","i","f","i","e","d">>
kRelated   == <<"r","e","l","a","t","e","d">>
kId        == <<"i","d">>
kType      == <<"t","y","p","e">>

\* The result of a builder function: the error thrown (class "" when
\* none), the expression built (a heap index) and the heap.
Built(v, heap) == [cls |-> "", msg |-> "", v |-> v, heap |-> heap]

NotBuilt(cls, msg) == [cls |-> cls, msg |-> msg, v |-> 0, heap |-> <<>>]

\* The pattern list parseSearchMap reads from the value of one key, or
\* ok = FALSE for an unsupported value.
SearchMapPatterns(value) ==
  IF IsScalar(value) THEN [ok |-> TRUE, patterns |-> <<ToStringValue(value)>>]
  ELSE IF value.t = "array" /\ \A i \in 1..Len(value.items) : IsScalar(value.items[i].value)
  THEN [ok |-> TRUE,
        patterns |-> [i \in 1..Len(value.items) |-> ToStringValue(value.items[i].value)]]
  ELSE [ok |-> FALSE, patterns |-> <<>>]

\* The atom parseSearchMap builds for one key: the field before the first
\* `|`, the modifiers after it.
SearchMapAtom(parts, patterns) == SearchAtom(parts[1], Tail(parts), patterns)

RECURSIVE SearchMapAtoms(_, _, _), SearchMapValue(_, _, _, _), SearchMapPush(_, _, _, _, _)
\* The loop of parseSearchMap from item i on: the atoms pushed onto the
\* container, or the first error.
SearchMapAtoms(node, i, atoms) ==
  IF i > Len(node.items) THEN [cls |-> "", msg |-> "", atoms |-> atoms]
  ELSE SearchMapValue(node, i, atoms, SearchMapPatterns(node.items[i].value))

SearchMapValue(node, i, atoms, p) ==
  IF ~p.ok THEN [cls |-> "SigmaError", msg |-> "unsupported value", atoms |-> <<>>]
  ELSE SearchMapPush(node, i, atoms,
                     SearchMapAtom(SplitOn(node.items[i].key, {"|"}), p.patterns),
                     validate(SearchMapAtom(SplitOn(node.items[i].key, {"|"}), p.patterns)))

SearchMapPush(node, i, atoms, atom, error) ==
  IF error # "" THEN [cls |-> "SigmaError", msg |-> error, atoms |-> <<>>]
  ELSE SearchMapAtoms(node, i + 1, Append(atoms, atom))

\* A container that is returned whatever the number of its atoms.
SearchMapWrapped(a, heap) ==
  IF a.cls # "" THEN NotBuilt(a.cls, a.msg)
  ELSE Built(Len(heap) + Len(a.atoms) + 1,
             Append(heap \o a.atoms,
                    AndExpr([k \in 1..Len(a.atoms) |-> Len(heap) + k])))

\* The container parseSearchMap returns for the atoms a.
SearchMapContainer(a, heap) ==
  IF a.cls # "" THEN NotBuilt(a.cls, a.msg)
  ELSE IF Len(a.atoms) = 0 THEN NotBuilt("SigmaError", "empty map")
  ELSE IF Len(a.atoms) = 1 THEN Built(Len(heap) + 1, heap \o a.atoms)
  ELSE Built(Len(heap) + Len(a.atoms) + 1,
             Append(heap \o a.atoms,
                    AndExpr([k \in 1..Len(a.atoms) |-> Len(heap) + k])))

\* parseSearchMap: the atom of a one-key map, an AndExpr of the atoms of a
\* map with several keys.
parseSearchMap(node, heap) == SearchMapContainer(SearchMapAtoms(node, 1, <<>>), heap)

RECURSIVE ListExprs(_, _, _, _), ListExprsElem(_, _, _, _, _), ListExprsMap(_, _, _, _)
\* value.map(...) of parseDetection for a list value, from element i on:
\* the expressions built (heap indices), or the first error.
ListExprs(value, i, exprs, heap) ==
  IF i > Len(value.items) THEN [cls |-> "", msg |-> "", exprs |-> exprs, heap |-> heap]
  ELSE ListExprsElem(value, i, exprs, heap, value.items[i].value)

ListExprsElem(value, i, exprs, heap, elem) ==
  IF elem.t = "string"
  THEN ListExprs(value, i + 1, Append(exprs, Len(heap) + 1),
                 Append(heap, SearchAtom(UNDEF, <<>>, <<elem.s>>)))
  ELSE IF elem.t = "object"
  THEN ListExprsMap(value, i, exprs, parseSearchMap(elem, heap))
  ELSE [cls |-> "SigmaError", msg |-> "unsupported list value",
        exprs |-> <<>>, heap |-> <<>>]

ListExprsMap(value, i, exprs, m) ==
  IF m.cls # "" THEN [cls |-> m.cls, msg |-> m.msg, exprs |-> <<>>, heap |-> <<>>]
  ELSE ListExprs(value, i + 1, Append(exprs, m.v), m.heap)

\* A list that is never merged into one atom.
NeverCollapsed(l) == FALSE

\* allAreSearchAtoms of parseDetection: every expression of the list is
\* an atom without field and without modifiers.
AllAreSearchAtoms(l) ==
  \A k \in 1..Len(l.exprs) :
    /\ l.heap[l.exprs[k]].k = "SearchAtom"
    /\ NoField(l.heap[l.exprs[k]])
    /\ Len(l.heap[l.exprs[k]].modifiers) = 0

\* The expression parseDetection builds for a list value with the
\* expressions l.
SearchList(l) ==
  IF l.cls # "" THEN NotBuilt(l.cls, l.msg)
  ELSE IF Len(l.exprs) = 1 THEN Built(l.exprs[1], l.heap)
  ELSE IF AllAreSearchAtoms(l)
  THEN Built(Len(l.heap) + 1,
             Append(l.heap,
                    SearchAtom(UNDEF, <<>>,
                      Flatten([k \in 1..Len(l.exprs) |-> l.heap[l.exprs[k]].patterns]))))
  ELSE Built(Len(l.heap) + 1, Append(l.heap, OrExpr(l.exprs)))

\* The expression parseDetection builds for the value of one search
\* identifier.
SearchIdentifier(value, heap) ==
  IF value.t = "array" THEN SearchList(ListExprs(value, 1, <<>>, heap))
  ELSE IF value.t = "object" THEN parseSearchMap(value, heap)
  ELSE IF value.t = "string"
  THEN Built(Len(heap) + 1, Append(heap, SearchAtom(UNDEF, <<>>, <<value.s>>)))
  ELSE NotBuilt("SigmaError", "unsupported value")

RECURSIVE StringLess(_, _)
\* a < b for two strings, as Array.prototype.sort orders them (by code
\* unit).
StringLess(a, b) ==
  IF b = <<>> THEN FALSE
  ELSE IF a = <<>> THEN TRUE
  ELSE IF a[1] # b[1] THEN CharCode(a[1]) < CharCode(b[1])
  ELSE StringLess(Tail(a), Tail(b))

\* The least string of a non-empty set.
LeastString(set) == CHOOSE a \in set : \A b \in set \ {a} : StringLess(a, b)

RECURSIVE SortStrings(_), SortStringsFrom(_, _)
\* The strings of a set, sorted.
SortStrings(set) == IF set = {} THEN <<>> ELSE SortStringsFrom(set, LeastString(set))

SortStringsFrom(set, least) == <<least>> \o SortStrings(set \ {least})

\* The keys of the rows, in their order.
KeysOf(rows) == [i \in 1..Len(rows) |-> rows[i].key]

UnsortedIdKeys(block) ==
  KeysOf(SelectSeq(block.items, LAMBDA e : e.key # kCondition /\ e.key # kTimeframe))

\* idKeys of parseDetection: the keys of the block other than condition
\* and timeframe, sorted.
IdKeys(block) ==
  SortStrings({block.items[i].key : i \in 1..Len(block.items)} \ {kCondition, kTimeframe})

RECURSIVE Identifiers(_, _, _, _, _), IdentifiersNext(_, _, _, _, _)
\* The identifier loop of parseDetection from key i on: the identifier
\* table, or the first error.
Identifiers(block, idKeys, i, table, heap) ==
  IF i > Len(idKeys) THEN [cls |-> "", msg |-> "", table |-> table, heap |-> heap]
  ELSE IdentifiersNext(block, idKeys, i, table,
                       SearchIdentifier(Get(block, idKeys[i]), heap))

\* A table that refers to the expression of an identifier itself, not to
\* the named expression over it.
IdentifiersUnnamed(block, idKeys, i, table, r) ==
  IF r.cls # "" THEN [cls |-> r.cls, msg |-> r.msg, table |-> <<>>, heap |-> <<>>]
  ELSE Identifiers(block, idKeys, i + 1,
                   Append(table, [name |-> idKeys[i], id |-> r.v]),
                   Append(r.heap, NamedExpr(idKeys[i], r.v)))

IdentifiersNext(block, idKeys, i, table, r) ==
  IF r.cls # "" THEN [cls |-> r.cls, msg |-> r.msg, table |-> <<>>, heap |-> <<>>]
  ELSE Identifiers(block, idKeys, i + 1,
                   Append(table, [name |-> idKeys[i], id |-> Len(r.heap) + 1]),
                   Append(r.heap, NamedExpr(idKeys[i], r.v)))

RECURSIVE Conditions(_, _, _, _, _), ConditionsNext(_, _, _, _, _)
\* conditions.map(parseCondition) from condition i on.
Conditions(conditions, i, exprs, heap, identifiers) ==
  IF i > Len(conditions) THEN [cls |-> "", msg |-> "", exprs |-> exprs, heap |-> heap]
  ELSE ConditionsNext(conditions, i, exprs, identifiers,
                      parseCondition(conditions[i], heap, identifiers))

ConditionsNext(conditions, i, exprs, identifiers, c) ==
  IF c.cls # "" THEN [cls |-> c.cls, msg |-> c.msg, exprs |-> <<>>, heap |-> <<>>]
  ELSE Conditions(conditions, i + 1, Append(exprs, c.v), c.heap, identifiers)

\* What parseDetection throws.
NoDetection(cls, msg) ==
  [cls |-> cls, msg |-> msg, v |-> 0, heap |-> <<>>, identifiers |-> <<>>]

\* A detection made of the first condition alone.
DetectionOfFirst(ids, conds) ==
  IF conds.cls # "" THEN [cls |-> conds.cls, msg |-> conds.msg, v |-> 0, heap |-> <<>>,
                          identifiers |-> <<>>]
  ELSE [cls |-> "", msg |-> "", v |-> conds.exprs[1], heap |-> conds.heap,
        identifiers |-> ids.table]

\* The end of parseDetection: the single condition, or an OrExpr of the
\* conditions.
DetectionOf(ids, conds) ==
  IF conds.cls # "" THEN NoDetection(conds.cls, conds.msg)
  ELSE IF Len(conds.exprs) = 1
  THEN [cls |-> "", msg |-> "", v |-> conds.exprs[1], heap |-> conds.heap,
        identifiers |-> ids.table]
  ELSE [cls |-> "", msg |-> "", v |-> Len(conds.heap) + 1,
        heap |-> Append(conds.heap, OrExpr(conds.exprs)), identifiers |-> ids.table]

\* parseDetection after the identifier loop.
DetectionConditions(conditions, ids) ==
  IF ids.cls # "" THEN NoDetection(ids.cls, ids.msg)
  ELSE DetectionOf(ids, Conditions(conditions, 1, <<>>, ids.heap, ids.table))

\* parseDetection after listOfStrings(block['condition']).
DetectionBlock(block, conditions) ==
  IF Len(conditions) = 0 THEN NoDetection("SigmaError", "missing detection condition")
  ELSE IF Truthy(Get(block, kTimeframe))
  THEN NoDetection("SigmaAggregationNotSupportedError",
                   "aggregation expressions not supported")
  ELSE DetectionConditions(conditions, Identifiers(block, IdKeys(block), 1, <<>>, <<>>))

\* parseDetection: [cls, msg, v, heap, identifiers].
parseDetection(block) ==
  IF ~Truthy(block) THEN NoDetection("SigmaError", "missing detection")
  ELSE DetectionBlock(block, listOfStrings(Get(block, kCondition)))

\* What the related loop of parseRule throws at the element rel, "" when
\* nothing.
RelationError(rel) ==
  IF ~Truthy(rel) THEN ""
  ELSE IF ~Truthy(Get(rel, kId)) THEN "related: missing id"
  ELSE IF ~Truthy(Get(rel, kType)) THEN "related: missing type"
  ELSE ""

\* The first error of the related loop over the elements.
FirstRelationError(items, i) ==
  IF i = 0 THEN "" ELSE RelationError(items[i].value)

\* The related loop of parseRule: the error it throws, "" when none (the
\* elements of a string are its characters, which have no id; a number,
\* a boolean or an object has no length and the loop does not run).
RelatedError(related) ==
  IF ~Truthy(related) THEN ""
  ELSE IF related.t = "string" THEN "related: missing id"
  ELSE IF related.t # "array" THEN ""
  ELSE FirstRelationError(related.items,
         FirstOf({i \in 1..Len(related.items) : RelationError(related.items[i].value) # ""}))

\* SigmaDate.parse in parseRule: [cls, msg, has, date].
RuleDateParsed(d) ==
  IF d.err # "" THEN [cls |-> "Error", msg |-> d.err, has |-> FALSE, date |-> NoDate]
  ELSE [cls |-> "", msg |-> "", has |-> TRUE, date |-> d.date]

\* rule.date / rule.modified of parseRule: [cls, msg, has, date].  A
\* truthy value that is no string has no split method.
RuleDate(value) ==
  IF ~Truthy(value) THEN [cls |-> "", msg |-> "", has |-> FALSE, date |-> NoDate]
  ELSE IF value.t # "string"
  THEN [cls |-> "TypeError", msg |-> "s.split is not a function", has |-> FALSE, date |-> NoDate]
  ELSE RuleDateParsed(SigmaDateParse(value.s))

NoRule == [expr |-> 0, heap |-> <<>>, identifiers |-> <<>>,
           hasDate |-> FALSE, date |-> NoDate, hasModified |-> FALSE, modified |-> NoDate]

\* What parseRule throws.
NotRule(cls, msg) == [cls |-> cls, msg |-> msg, rule |-> NoRule]

\* The rule parseRule returns, or the error of its date fields.
RuleOf(detection, date, modified) ==
  IF date.cls # "" THEN NotRule(date.cls, date.msg)
  ELSE IF modified.cls # "" THEN NotRule(modified.cls, modified.msg)
  ELSE [cls |-> "", msg |-> "",
        rule |-> [expr |-> detection.v, heap |-> detection.heap,
                  identifiers |-> detection.identifiers,
                  hasDate |-> date.has, date |-> date.date,
                  hasModified |-> modified.has, modified |-> modified.date]]

\* parseRule after parseDetection.
RuleRelated(d, detection, relatedErr) ==
  IF detection.cls # "" THEN NotRule(detection.cls, detection.msg)
  ELSE IF relatedErr # "" THEN NotRule("SigmaError", relatedErr)
  ELSE RuleOf(detection, RuleDate(Get(d, kDate)), RuleDate(Get(d, kModified)))

\* parseRule on the document YAML.parse returned: [cls, msg, rule], cls ""
\* when a rule is returned and the class of the error thrown otherwise.
parseRule(d) ==
  IF d.t = "null" THEN NotRule("TypeError", "cannot read properties of null")
  ELSE IF ~Truthy(Get(d, kTitle)) THEN NotRule("SigmaError", "missing title")
  ELSE RuleRelated(d, parseDetection(Get(d, kDetection)), RelatedError(Get(d, kRelated)))
(**************************************************************************)
(* The program in use: a document is handed to parseRule, and the rule    *)
(* it returns is matched against log entries.                             *)
(**************************************************************************)

VARIABLES
  pc,      \* "input": parseRule not yet called; "parsed" / "failed": it
           \* returned / threw; "matched": exprMatches has been called
  doc,     \* the document YAML.parse produced from the rule text
  rule,    \* what parseRule produced: [cls, msg, rule]
  entry,   \* the log entry of the last exprMatches call
  opts,    \* the placeholder table of the last exprMatches call
  result   \* what the last exprMatches call did: "true", "false", "throw"

vars == <<pc, doc, rule, entry, opts, result>>

\* opts without placeholders (types.ts MatchOptions.placeholders absent).
NoPlaceholders == [has |-> FALSE, tab |-> <<>>]

\* A log entry (types.ts LogEntry) and one of its fields.
LogEntry(message, fields) == [message |-> message, fields |-> fields]

Field(key, value) == [key |-> key, value |-> value]

\* The state before parseRule is called on one of the documents docs.
Start(docs) ==
  /\ pc = "input"
  /\ doc \in docs
  /\ rule = [cls |-> "", msg |-> "", rule |-> NoRule]
  /\ entry = LogEntry(<<>>, <<>>)
  /\ opts = NoPlaceholders
  /\ result = "none"

\* parseRule(ruleYaml): the rule is returned or an error is thrown.
ParseRule ==
  /\ pc = "input"
  /\ rule' = parseRule(doc)
  /\ pc' = IF rule'.cls = "" THEN "parsed" ELSE "failed"
  /\ UNCHANGED <<doc, entry, opts, result>>

\* rule.detection.expr.exprMatches(e, { placeholders }) for an entry e of
\* entries and a table of tables; the atoms it reaches keep the matcher
\* they compiled.
ExprMatches(entries, tables) ==
  /\ pc \in {"parsed", "matched"}
  /\ \E e \in entries, p \in tables :
       LET m == exprMatches(rule.rule.heap, rule.rule.expr, e, p)
       IN /\ entry' = e
          /\ opts' = p
          /\ result' = m.r
          /\ rule' = [rule EXCEPT !.rule.heap = m.heap]
  /\ pc' = "matched"
  /\ UNCHANGED doc

\* A rule document with a title and the given detection block.
RuleDoc(detection) ==
  JObject(<<KV(kTitle, JString(Str("rule"))), KV(kDetection, detection)>>)

\* The condition string of the document in hand.
ConditionOf(d) == Get(Get(d, kDetection), kCondition).s

\* The assignment of match / no-match the last entry gives to the
\* identifier `name`, whose atom asks for the value 1 in the field f<name>.
IdentifierMatches(name) ==
  \E i \in 1..Len(entry.fields) :
    entry.fields[i].key = Str("f") \o name /\ entry.fields[i].value = Str("1")

(**************************************************************************)
(* Conditions: rules over three search identifiers a, b, c, each one     *)
(* atom on a field of its own, so that a log entry is an assignment of   *)
(* match / no-match to the identifiers.                                   *)
(**************************************************************************)

\* Nesting depth of the generated conditions.
MaxDepth == 2

CondNames == {Str("a"), Str("b"), Str("c")}

RECURSIVE CondTokens(_)
\* The token sequences of the well-formed conditions of depth <= d over
\* CondNames, and, or, not and parentheses.
CondTokens(d) ==
  IF d = 0 THEN {<<n>> : n \in CondNames}
  ELSE LET S == CondTokens(d - 1)
       IN S \cup {<<tNot>> \o x : x \in S}
            \cup {<<Str("(")>> \o x \o <<Str(")")>> : x \in S}
            \cup {x \o <<op>> \o y : x \in S, y \in S, op \in {tAnd, tOr}}

\* The detection block with the identifiers of CondNames (written c, a, b)
\* and the condition made of the tokens, separated by single spaces.
CondDoc(tokens) ==
  LET id(n) == KV(Str(n), JObject(<<KV(Str("f") \o Str(n), JString(Str("1")))>>))
  IN RuleDoc(JObject(<<id("c"), id("a"), id("b"),
                       KV(kCondition, JString(Join(tokens, Str(" "))))>>))

\* The entries over the fields fa, fb, fc with values 1 and 0.
CondEntries ==
  {LogEntry(<<>>, <<Field(Str("fa"), va), Field(Str("fb"), vb), Field(Str("fc"), vc)>>) :
     va \in {Str("0"), Str("1")}, vb \in {Str("0"), Str("1")}, vc \in {Str("0"), Str("1")}}

\* The token sequence t with a `|` token put in after its first k tokens.
WithPipe(t, k) == SubSeq(t, 1, k) \o <<Str("|")>> \o SubSeq(t, k + 1, Len(t))

\* Conditions with a `|` token: at every place of the conditions of depth
\* <= 1, and as the word after `1 of` / `all of`.
PipeTokens ==
  UNION {{WithPipe(t, k) : k \in 0..Len(t)} : t \in CondTokens(1)}
    \cup {<<q, tOf, Str("|")>> : q \in {tOne, tAll}}
    \cup {<<q, tOf, Str("|"), op, Str("a")>> : q \in {tOne, tAll}, op \in {tAnd, tOr}}

InitCondition == Start({CondDoc(t) : t \in CondTokens(MaxDepth) \cup PipeTokens})

MatchCondition == ExprMatches(CondEntries, {NoPlaceholders})

NextCondition == ParseRule \/ MatchCondition

SpecCondition == InitCondition /\ [][NextCondition]_vars

\* The words of a string: its maximal runs of characters other than spaces.
Words(s) ==
  LET starts == {i \in 1..Len(s) : s[i] # " " /\ (i = 1 \/ s[i - 1] = " ")}
      endOf(i) == CHOOSE j \in i..Len(s) :
                    /\ \A k \in i..j : s[k] # " "
                    /\ (j = Len(s) \/ s[j + 1] = " ")
      RECURSIVE from(_)
      from(i) == IF i > Len(s) THEN <<>>
                 ELSE IF i \in starts THEN <<SubSeq(s, i, endOf(i))>> \o from(endOf(i) + 1)
                 ELSE from(i + 1)
  IN from(1)

RECURSIVE StdOr(_), StdOrTail(_), StdAnd(_), StdAndTail(_), StdNot(_)
\* The standard reading of a condition, by recursive descent over its
\* words: or-level, and-level, then not / parentheses / identifier.  Each
\* level returns [ok, v, rest]: whether a term was read, its truth value
\* under the matches of the identifiers on the last entry, the words left.
StdNot(toks) ==
  LET bad == [ok |-> FALSE, v |-> FALSE, rest |-> <<>>]
  IN IF toks = <<>> THEN bad
     ELSE IF Head(toks) = tNot
     THEN LET r == StdNot(Tail(toks)) IN [r EXCEPT !.v = ~r.v]
     ELSE IF Head(toks) = Str("(")
     THEN LET r == StdOr(Tail(toks))
          IN IF r.ok /\ r.rest # <<>> /\ Head(r.rest) = Str(")")
             THEN [r EXCEPT !.rest = Tail(r.rest)] ELSE bad
     ELSE IF Head(toks) \in CondNames
     THEN [ok |-> TRUE, v |-> IdentifierMatches(Head(toks)), rest |-> Tail(toks)]
     ELSE bad

StdAndTail(l) ==
  IF l.ok /\ l.rest # <<>> /\ Head(l.rest) = tAnd
  THEN LET r == StdNot(Tail(l.rest))
       IN StdAndTail([ok |-> r.ok, v |-> l.v /\ r.v, rest |-> r.rest])
  ELSE l

StdAnd(toks) == StdAndTail(StdNot(toks))

StdOrTail(l) ==
  IF l.ok /\ l.rest # <<>> /\ Head(l.rest) = tOr
  THEN LET r == StdAnd(Tail(l.rest))
       IN StdOrTail([ok |-> r.ok, v |-> l.v \/ r.v, rest |-> r.rest])
  ELSE l

StdOr(toks) == StdOrTail(StdAnd(toks))

\* The condition in hand is a well-formed boolean condition over CondNames.
IsStdCondition ==
  LET r == StdOr(Words(ConditionOf(doc))) IN r.ok /\ r.rest = <<>>

\* C1: a well-formed condition over known identifiers, and, or, not and
\* parentheses is parsed, and on every entry the tree parsed from it
\* evaluates to the boolean of the standard reading: not binds tightest,
\* and binds tighter than or, parentheses override.
PrecedenceIsStandard ==
  (pc # "input" /\ IsStdCondition) =>
     /\ pc # "failed"
     /\ pc = "matched" =>
          result = IF StdOr(Words(ConditionOf(doc))).v THEN "true" ELSE "false"

\* a or b and c on an entry where only a matches: true under the standard
\* reading, false if or bound tighter.
PrecedenceWitness ==
  /\ pc = "matched"
  /\ ConditionOf(doc) = Str("a or b and c")
  /\ IdentifierMatches(Str("a")) /\ ~IdentifierMatches(Str("b")) /\ ~IdentifierMatches(Str("c"))
  /\ result = "true"

\* The condition in hand has a `|` token.
HasPipe == \E i \in 1..Len(ConditionOf(doc)) : ConditionOf(doc)[i] = "|"

\* C6 as stated: a condition with a `|` token fails to parse with the
\* unsupported-aggregation error, wherever the `|` stands.
PipeIsAggregationError ==
  (pc # "input" /\ HasPipe) =>
     (pc = "failed" /\ rule.cls = "SigmaAggregationNotSupportedError")

\* `1 of |` over the identifiers a, b, c is parsed into a tree.
PipeParsed ==
  /\ pc = "parsed"
  /\ ConditionOf(doc) = Str("1 of |")

\* `| a` fails with the generic SigmaError.
PipeGenericError ==
  /\ pc = "failed"
  /\ ConditionOf(doc) = Str("| a")
  /\ rule.cls = "SigmaError"

(**************************************************************************)
(* Quantifiers: rules over two to four search identifiers, with a         *)
(* condition `1 of <pattern>` or `all of <pattern>`.                      *)
(**************************************************************************)

\* The identifier names, in the order the rule text lists them.
QuantNames == <<Str("ta"), Str("sel_b"), Str("sel_a"), Str("sb")>>

\* The patterns of the quantifiers: them, and globs of name characters
\* and `*`.
QuantPatterns ==
  {tThem, Str("sel_*"), Str("s*"), Str("*a"), Str("*"), Str("s*b"), Str("ta"), Str("x*")}

\* The detection block with one identifier per name, each one atom asking
\* for the value 1 in the field f<name>, and the condition.
QuantDoc(names, condition) ==
  RuleDoc(JObject([i \in 1..Len(names) |->
                     KV(names[i], JObject(<<KV(Str("f") \o names[i], JString(Str("1")))>>))]
                  \o <<KV(kCondition, JString(condition))>>))

\* The identifier tables: the names of every set of two or more names.
QuantTables ==
  {SelectSeq(QuantNames, LAMBDA n : n \in S) :
     S \in {T \in SUBSET {QuantNames[i] : i \in 1..Len(QuantNames)} : Cardinality(T) >= 2}}

\* The entries: every assignment of the values 1 and 0 to the fields.
QuantEntries ==
  {LogEntry(<<>>, [i \in 1..Len(QuantNames) |-> Field(Str("f") \o QuantNames[i], v[i])]) :
     v \in [1..Len(QuantNames) -> {Str("0"), Str("1")}]}

InitQuantifier ==
  Start({QuantDoc(names, Join(<<q, tOf, p>>, Str(" "))) :
           names \in QuantTables, q \in {tOne, tAll}, p \in QuantPatterns})

MatchQuantifier == ExprMatches(QuantEntries, {NoPlaceholders})

NextQuantifier == ParseRule \/ MatchQuantifier

SpecQuantifier == InitQuantifier /\ [][NextQuantifier]_vars

RECURSIVE StarMatch(_, _)
\* The glob p (`*`: any run of characters) matches the whole name.
StarMatch(p, name) ==
  IF p = <<>> THEN name = <<>>
  ELSE IF Head(p) = "*"
  THEN StarMatch(Tail(p), name) \/ (name # <<>> /\ StarMatch(p, Tail(name)))
  ELSE name # <<>> /\ Head(p) = Head(name) /\ StarMatch(Tail(p), Tail(name))

\* The identifier names of the document in hand.
NamesOf(d) ==
  {Get(d, kDetection).items[i].key : i \in 1..Len(Get(d, kDetection).items)} \ {kCondition}

\* The identifiers the quantifier of the condition in hand selects.
QuantSelected ==
  LET pattern == Words(ConditionOf(doc))[3]
  IN IF pattern = tThem THEN NamesOf(doc)
     ELSE {n \in NamesOf(doc) : StarMatch(pattern, n)}

\* C2: over a table of two or more identifiers, `1 of <pattern>` matches
\* an entry exactly when some selected identifier matches it and
\* `all of <pattern>` exactly when every selected identifier does, the
\* selected identifiers being all of them for `them` and those whose name
\* the glob matches otherwise; the condition is parsed whenever some
\* identifier is selected.
QuantifierLaws ==
  /\ (pc # "input" /\ QuantSelected # {}) => pc # "failed"
  /\ pc = "matched" =>
       result = IF Words(ConditionOf(doc))[1] = tOne
                THEN (IF \E n \in QuantSelected : IdentifierMatches(n)
                      THEN "true" ELSE "false")
                ELSE (IF \A n \in QuantSelected : IdentifierMatches(n)
                      THEN "true" ELSE "false")

\* `all of sel_*` over sel_a, sel_b and ta on an entry where sel_a matches
\* and sel_b does not: no match.
QuantifierWitness ==
  /\ pc = "matched"
  /\ ConditionOf(doc) = Str("all of sel_*")
  /\ NamesOf(doc) = {Str("ta"), Str("sel_a"), Str("sel_b")}
  /\ IdentifierMatches(Str("sel_a")) /\ ~IdentifierMatches(Str("sel_b"))
  /\ result = "false"

(**************************************************************************)
(* Rule documents: well-formed and ill-formed rules, with and without a   *)
(* timeframe key, a date and a modified date.                             *)
(**************************************************************************)

\* A search identifier `selection` asking for the value 1 in the field f.
RuleSelection == KV(Str("selection"), JObject(<<KV(Str("f"), JString(Str("1")))>>))

\* The detection block with the selection, the extra items and the
\* condition.
RuleDetection(items, condition) ==
  JObject(<<RuleSelection>> \o items \o <<KV(kCondition, JString(condition))>>)

\* Detection blocks that differ in their condition.
RuleConditions ==
  {RuleDetection(<<>>, Str(c)) :
     c \in {"selection", "not selection", "selection and", "1 of ?x", "1 of (",
            "1 of sel*", "other", ""}}

\* Detection blocks with a search identifier the builder rejects, and one
\* it accepts.
RuleIdentifiers ==
  {RuleDetection(<<KV(Str("other"), JObject(<<KV(Str(k), JString(Str(v)))>>))>>,
                 Str("selection")) :
     k \in {"g", "g|nomodifier", "g|re", "g|cidr", "g|contains|expand"},
     v \in {"(", "10.0.0.0/8"}}
    \cup {RuleDetection(<<KV(Str("other"), v)>>, Str("selection")) :
            v \in {JObject(<<>>), JNumber(1), JNull,
                   JObject(<<KV(Str("g"), JObject(<<>>))>>)}}

\* Values of a timeframe key.
TimeframeValues == {JString(Str("5m")), JString(<<>>), JNull, JNumber(0), JNumber(5)}

\* Detection blocks with a timeframe key: at the top level or inside a
\* search identifier, with a condition that is valid, invalid or missing.
RuleTimeframes ==
  {RuleDetection(<<KV(kTimeframe, v)>>, Str(c)) :
     v \in TimeframeValues, c \in {"selection", "selection and", ""}}
    \cup {JObject(<<RuleSelection, KV(kTimeframe, v)>>) : v \in TimeframeValues}
    \cup {JObject(<<KV(Str("selection"), JObject(<<KV(kTimeframe, v)>>)),
                    KV(kCondition, JString(Str("selection")))>>) :
            v \in {JString(Str("5m")), JNumber(5)}}

\* Detection blocks that are missing, empty or without a condition, as
\* values of the detection key.
RuleNoDetections ==
  {JUndefined, JNull, JObject(<<>>), JObject(<<RuleSelection>>),
   JObject(<<RuleSelection, KV(kCondition, JNumber(1))>>)}

RuleDetections == RuleConditions \cup RuleIdentifiers \cup RuleTimeframes \cup RuleNoDetections

\* Values of the date and modified keys.
RuleDates ==
  {JUndefined, JString(Str("2024-02-30")), JString(Str("2024/13/01")),
   JString(Str("24-01-01")), JString(Str("today")), JNumber(2024)}

\* The rule documents: every detection block under a title, a well-formed
\* block with and without a title and with every date and modified date,
\* and the document of an empty text.
RuleDocs ==
  {RuleDoc(d) : d \in RuleDetections}
    \cup {JObject(<<KV(kDetection, d)>>) : d \in RuleDetections}
    \cup {JObject(<<KV(kTitle, JString(Str("rule"))),
                    KV(kDetection, RuleDetection(<<>>, Str("selection"))),
                    KV(kDate, d), KV(kModified, m)>>) : d \in RuleDates, m \in RuleDates}
    \cup {JNull}

RuleEntries == {LogEntry(<<>>, <<Field(Str("f"), Str(v))>>) : v \in {"0", "1"}}

InitRule == Start(RuleDocs)

MatchRule == ExprMatches(RuleEntries, {NoPlaceholders})

NextRule == ParseRule \/ MatchRule

SpecRule == InitRule /\ [][NextRule]_vars

\* The error classes that are SigmaError or extend it.
SigmaErrors == {"SigmaError", "SigmaAggregationNotSupportedError"}

\* C4 as stated: every failure of parseRule is a SigmaError or an error of
\* a subclass of it.
FailuresAreSigmaErrors == pc = "failed" => rule.cls \in SigmaErrors

\* The date 2024/13/01 fails with a plain Error.
DateFailsWithError ==
  /\ pc = "failed"
  /\ Get(doc, kDate) = JString(Str("2024/13/01"))
  /\ rule.cls = "Error"

\* The detection block in hand has a timeframe key, at the top level or
\* inside a search identifier.
HasTimeframe ==
  LET block == Get(doc, kDetection)
  IN /\ block.t = "object"
     /\ \E i \in 1..Len(block.items) :
          \/ block.items[i].key = kTimeframe
          \/ /\ block.items[i].value.t = "object"
             /\ \E j \in 1..Len(block.items[i].value.items) :
                  block.items[i].value.items[j].key = kTimeframe

\* C5 as stated: a detection block with a timeframe key anywhere in it
\* makes parseRule fail with the unsupported-aggregation error, whatever
\* the value of the key and the rest of the block.
TimeframeIsAggregationError ==
  (pc # "input" /\ doc.t = "object" /\ Truthy(Get(doc, kTitle)) /\ HasTimeframe) =>
     (pc = "failed" /\ rule.cls = "SigmaAggregationNotSupportedError")

\* A rule whose detection block has the key timeframe with an empty value
\* is parsed.
TimeframeParsed ==
  /\ pc = "parsed"
  /\ Get(Get(doc, kDetection), kTimeframe) = JString(<<>>)

(**************************************************************************)
(* Atoms: rules with the one search identifier `selection`, a map with    *)
(* one key, and the condition `selection` or `not selection`.             *)
(**************************************************************************)

\* A list of strings as a document value.
JStrings(ss) == JArray([i \in 1..Len(ss) |-> JString(ss[i])])

\* The rule with the selection {key: value} and the condition.
AtomDoc(key, value, condition) ==
  RuleDoc(JObject(<<KV(Str("selection"), JObject(<<KV(key, value)>>)),
                    KV(kCondition, JString(condition))>>))

\* The key of the selection of the document in hand, its modifiers and
\* its patterns.
AtomKey == Get(Get(doc, kDetection), Str("selection")).items[1].key

AtomModifiers == {m \in {mAll, mBase64, mBase64offset, mCidr, mContains, mEndswith,
                         mExpand, mRe, mStartswith, mWindash} :
                    \E i \in 1..Len(AtomKey) - Len(m) :
                      AtomKey[i] = "|" /\ SubSeq(AtomKey, i + 1, i + Len(m)) = m
                        /\ (i + Len(m) = Len(AtomKey) \/ AtomKey[i + Len(m) + 1] = "|")}

AtomPatterns ==
  LET value == Get(Get(doc, kDetection), Str("selection")).items[1].value
  IN IF value.t = "array" THEN {value.items[i].value.s : i \in 1..Len(value.items)}
     ELSE {value.s}

\* The value of the field F of the last entry.
ValueOfF == entry.fields[1].value

\* Strings of length <= n over a set of characters.
RECURSIVE StringsOver(_, _)
StringsOver(chars, n) ==
  IF n = 0 THEN {<<>>}
  ELSE StringsOver(chars, n - 1)
         \cup {Append(s, c) : s \in StringsOver(chars, n - 1), c \in chars}

(**************************************************************************)
(* Glob atoms on the field F, without modifier and with contains,         *)
(* startswith and endswith.                                               *)
(**************************************************************************)

\* Length of the generated field values.
MaxValueLen == 3

GlobKeys ==
  {Str(k) : k \in {"F", "F|contains", "F|startswith", "F|endswith",
                   "F|startswith|contains", "F|contains|endswith"}}

GlobPatternLists ==
  {<<Str(p)>> : p \in {"ab", "a*", "*b", "a?", "a.b", "B", "StopLogging"}}
    \cup {<<Str("ab"), Str("b.")>>}

GlobValues ==
  StringsOver({"a", "b", ".", "B"}, MaxValueLen)
    \cup {Str("StopLogging"), Str("StopLoggingOrElse"), Str("DoStopLogging")}

InitGlob ==
  Start({AtomDoc(k, JStrings(ps), Str("selection")) : k \in GlobKeys, ps \in GlobPatternLists})

MatchGlob ==
  ExprMatches({LogEntry(<<>>, <<Field(Str("F"), v)>>) : v \in GlobValues}, {NoPlaceholders})

NextGlob == ParseRule \/ MatchGlob

SpecGlob == InitGlob /\ [][NextGlob]_vars

RECURSIVE GlobMatch(_, _)
\* The glob p matches the whole of s, letter case aside: `*` stands for
\* any run of characters, `?` for one character.
GlobMatch(p, s) ==
  IF p = <<>> THEN s = <<>>
  ELSE IF Head(p) = "*"
  THEN GlobMatch(Tail(p), s) \/ (s # <<>> /\ GlobMatch(p, Tail(s)))
  ELSE /\ s # <<>>
       /\ (Head(p) = "?" \/ ToLowerChar(Head(p)) = ToLowerChar(Head(s)))
       /\ GlobMatch(Tail(p), Tail(s))

\* The glob p matches the value v as the modifiers ask: anywhere in it, at
\* its start, at its end, or all of it.
GlobHits(p, v) ==
  IF mContains \in AtomModifiers
  THEN \E i \in 1..(Len(v) + 1) : \E j \in (i - 1)..Len(v) : GlobMatch(p, SubSeq(v, i, j))
  ELSE IF mStartswith \in AtomModifiers
  THEN \E j \in 0..Len(v) : GlobMatch(p, SubSeq(v, 1, j))
  ELSE IF mEndswith \in AtomModifiers
  THEN \E i \in 1..(Len(v) + 1) : GlobMatch(p, SubSeq(v, i, Len(v)))
  ELSE GlobMatch(p, v)

\* C7: a glob atom on a named field matches exactly when one of its
\* patterns matches the entire field value without modifier, occurs
\* anywhere in it with contains, matches a start of it with startswith
\* alone and an end of it with endswith alone.
GlobAnchoring ==
  pc = "matched" =>
    result = IF \E p \in AtomPatterns : GlobHits(p, ValueOfF) THEN "true" ELSE "false"

\* StopLogging without modifier does not match StopLoggingOrElse.
GlobWitness ==
  /\ pc = "matched"
  /\ AtomKey = Str("F")
  /\ AtomPatterns = {Str("StopLogging")}
  /\ ValueOfF = Str("StopLoggingOrElse")
  /\ result = "false"

(**************************************************************************)
(* Keywords: the rule of the README, with keyword lists of its kind.      *)
(**************************************************************************)

KeywordLists ==
  {<<Str("foo"), Str("bar")>>, <<Str("foo")>>, <<Str("Bar"), Str("o b")>>,
   <<Str("a.c"), Str("foo")>>}

\* detection: {keywords: [...], selection: {EventId: 1234},
\* condition: keywords and selection}.
KeywordDoc(keywords) ==
  RuleDoc(JObject(<<KV(Str("keywords"), keywords),
                    KV(Str("selection"), JObject(<<KV(Str("EventId"), JNumber(1234))>>)),
                    KV(kCondition, JString(Str("keywords and selection")))>>))

KeywordMessages ==
  {Str(m) : m \in {"Hello foo", "Hello baz", "Hello FOO", "BAR", "fo", "", "foo bar",
                   "abc", "xa.cx", "bazfoobaz", "ba r"}}

\* The fields of the entries: an EventId of some value under some
\* spelling of the key, or no EventId.
KeywordFields ==
  {<<Field(Str(k), Str(v))>> : k \in {"EventId", "eventid"},
                                v \in {"1234", "12345", "123", "01234", ""}}
    \cup {<<>>, <<Field(Str("Other"), Str("1234"))>>}

InitKeyword ==
  Start({KeywordDoc(JStrings(ks)) : ks \in KeywordLists}
          \cup {KeywordDoc(JString(Str("foo")))})

MatchKeyword ==
  ExprMatches({LogEntry(m, f) : m \in KeywordMessages, f \in KeywordFields},
              {NoPlaceholders})

NextKeyword == ParseRule \/ MatchKeyword

SpecKeyword == InitKeyword /\ [][NextKeyword]_vars

\* The keywords of the document in hand.
KeywordsOf(d) ==
  LET value == Get(Get(d, kDetection), Str("keywords"))
  IN IF value.t = "array" THEN {value.items[i].value.s : i \in 1..Len(value.items)}
     ELSE {value.s}

\* The word occurs somewhere in the text, letter case aside.
Occurs(word, text) ==
  \E i \in 0..(Len(text) - Len(word)) :
    ToLowerCase(SubSeq(text, i + 1, i + Len(word))) = ToLowerCase(word)

\* The last entry has an EventId field, under some spelling of the key,
\* and its value is exactly 1234.
EventIdIs1234 ==
  /\ entry.fields # <<>>
  /\ ToLowerCase(entry.fields[1].key) = Str("eventid")
  /\ entry.fields[1].value = Str("1234")

\* C8: the rule `keywords and selection` with selection {EventId: 1234}
\* matches exactly the entries whose EventId is 1234 and whose message
\* contains one of the keywords, letter case aside.
KeywordsAreSubstrings ==
  pc = "matched" =>
    result = IF EventIdIs1234 /\ \E k \in KeywordsOf(doc) : Occurs(k, entry.message)
             THEN "true" ELSE "false"

\* keywords [foo, bar]: Hello FOO with EventId 1234 matches.
KeywordWitness ==
  /\ pc = "matched"
  /\ KeywordsOf(doc) = {Str("foo"), Str("bar")}
  /\ entry.message = Str("Hello FOO")
  /\ EventIdIs1234
  /\ result = "true"

(**************************************************************************)
(* CIDR atoms on the field ip, under `selection` and `not selection`.     *)
(**************************************************************************)

CidrNetworkLists ==
  {<<Str("10.0.0.0/8")>>, <<Str("192.168.0.0/16"), Str("10.0.0.0/8")>>,
   <<Str("fe80::/10")>>, <<Str("2001:db8::/32"), Str("fe80::/10")>>,
   <<Str("10.0.0.0/8"), Str("fe80::/10")>>, <<Str("10.1.2.3")>>}

CidrValues ==
  {Str(v) : v \in {"10.1.2.3", "11.1.2.3", "10.255.0.1", "192.168.7.9", "192.169.0.1",
                   "fe80::1", "febf::1", "fec0::1", "2001:db8::5", "2001:db9::5", "::1",
                   "not an ip", "", "10.1.2", "10.1.2.3.4"}}

InitCidr ==
  Start({AtomDoc(Str("ip|cidr"), JStrings(ns), Str(c)) :
           ns \in CidrNetworkLists, c \in {"selection", "not selection"}})

MatchCidr ==
  ExprMatches({LogEntry(<<>>, <<Field(Str("ip"), v)>>) : v \in CidrValues}, {NoPlaceholders})

NextCidr == ParseRule \/ MatchCidr

SpecCidr == InitCidr /\ [][NextCidr]_vars

\* The addresses and networks of this section by their text: the family,
\* the groups (four of 8 bits, eight of 16 bits) and the prefix length.
IP(text, v, groups, mask) == [text |-> Str(text), v |-> v, groups |-> groups, mask |-> mask]

KnownAddresses ==
  {IP("10.0.0.0/8", 4, <<10, 0, 0, 0>>, 8),
   IP("192.168.0.0/16", 4, <<192, 168, 0, 0>>, 16),
   IP("10.1.2.3", 4, <<10, 1, 2, 3>>, 32),
   IP("11.1.2.3", 4, <<11, 1, 2, 3>>, 32),
   IP("10.255.0.1", 4, <<10, 255, 0, 1>>, 32),
   IP("192.168.7.9", 4, <<192, 168, 7, 9>>, 32),
   IP("192.169.0.1", 4, <<192, 169, 0, 1>>, 32),
   IP("fe80::/10", 6, <<65152, 0, 0, 0, 0, 0, 0, 0>>, 10),
   IP("2001:db8::/32", 6, <<8193, 3512, 0, 0, 0, 0, 0, 0>>, 32),
   IP("fe80::1", 6, <<65152, 0, 0, 0, 0, 0, 0, 1>>, 128),
   IP("febf::1", 6, <<65215, 0, 0, 0, 0, 0, 0, 1>>, 128),
   IP("fec0::1", 6, <<65216, 0, 0, 0, 0, 0, 0, 1>>, 128),
   IP("2001:db8::5", 6, <<8193, 3512, 0, 0, 0, 0, 0, 5>>, 128),
   IP("2001:db9::5", 6, <<8193, 3513, 0, 0, 0, 0, 0, 5>>, 128),
   IP("::1", 6, <<0, 0, 0, 0, 0, 0, 0, 1>>, 128)}

\* 2^n.
RECURSIVE Pow2(_)
Pow2(n) == IF n = 0 THEN 1 ELSE 2 * Pow2(n - 1)

\* The first `bits` bits of the w-bit numbers a and b are the same.
SamePrefix(a, b, w, bits) ==
  IF bits <= 0 THEN TRUE
  ELSE IF bits >= w THEN a = b
  ELSE a \div Pow2(w - bits) = b \div Pow2(w - bits)

\* The address a lies in the network n: same family, same network prefix.
InNetwork(a, n) ==
  /\ a.v = n.v
  /\ \A g \in 1..Len(a.groups) :
       SamePrefix(a.groups[g], n.groups[g], IF a.v = 4 THEN 8 ELSE 16,
                  n.mask - (g - 1) * (IF a.v = 4 THEN 8 ELSE 16))

\* The value of the field ip of the last entry is an IP address in one of
\* the networks of the document in hand.
InListedNetwork ==
  \E a \in KnownAddresses, n \in KnownAddresses :
    a.text = entry.fields[1].value /\ n.text \in AtomPatterns /\ InNetwork(a, n)

\* C9: a cidr atom matches exactly when the value is an IP address that
\* lies in one of the listed networks of its own address family, and
\* `not selection` matches exactly the other entries; a value that is no
\* IP address is a non-match of the atom.
CidrContainment ==
  pc = "matched" =>
    result = IF InListedNetwork = (ConditionOf(doc) = Str("selection"))
             THEN "true" ELSE "false"

\* 11.1.2.3 is outside 10.0.0.0/8: `not selection` matches.
CidrWitness ==
  /\ pc = "matched"
  /\ ConditionOf(doc) = Str("not selection")
  /\ AtomPatterns = {Str("10.0.0.0/8")}
  /\ entry.fields[1].value = Str("11.1.2.3")
  /\ result = "true"

(**************************************************************************)
(* Expand atoms on the field User, matched with and without a placeholder *)
(* table.                                                                 *)
(**************************************************************************)

ExpandKeys == {Str(k) : k \in {"User|expand", "User|expand|re", "User|expand|contains"}}

ExpandPlaceholderLists == {<<Str("%ws%")>>, <<Str("%ws%"), Str("%adm%")>>}

\* A placeholder table (types.ts MatchOptions.placeholders) and one of
\* its entries.
Placeholders(tab) == [has |-> TRUE, tab |-> tab]

Placeholder(name, values) == [name |-> Str(name), values |-> values]

ExpandTables ==
  {NoPlaceholders, Placeholders(<<>>),
   Placeholders(<<Placeholder("ws", <<Str("pc1"), Str("pc2")>>)>>),
   Placeholders(<<Placeholder("other", <<Str("pc1")>>)>>),
   Placeholders(<<Placeholder("adm", <<Str("root")>>),
                  Placeholder("ws", <<Str("pc1")>>)>>),
   Placeholders(<<Placeholder("ws", <<>>)>>),
   Placeholders(<<Placeholder("ws", <<Str("(")>>)>>)}

ExpandValues == {Str(v) : v \in {"pc1", "PC2", "pc3", "root", "", "(", "%ws%", "xpc1"}}

InitExpand ==
  Start({AtomDoc(k, JStrings(ps), Str("selection")) :
           k \in ExpandKeys, ps \in ExpandPlaceholderLists})

MatchExpand ==
  ExprMatches({LogEntry(<<>>, <<Field(Str("User"), v)>>) : v \in ExpandValues},
              ExpandTables)

NextExpand == ParseRule \/ MatchExpand

SpecExpand == InitExpand /\ [][NextExpand]_vars

\* The values the table of the last call supplies for the placeholders of
\* the document in hand.
SuppliedValues ==
  IF ~opts.has THEN {}
  ELSE UNION {{opts.tab[i].values[k] : k \in 1..Len(opts.tab[i].values)} :
                i \in {j \in 1..Len(opts.tab) :
                         <<"%">> \o opts.tab[j].name \o <<"%">> \in AtomPatterns}}

MatchNeverThrows == pc = "matched" => result \in {"true", "false"}

\* The rule User|expand|re: %ws% with the value ( supplied for ws: the
\* call throws.
MatchThrows ==
  /\ pc = "matched"
  /\ AtomKey = Str("User|expand|re")
  /\ SuppliedValues = {Str("(")}
  /\ result = "throw"

(**************************************************************************)
(* Field lookup: atoms on the field F, matched against entries that have  *)
(* the field under some spelling of its name, or do not have it.          *)
(**************************************************************************)

LookupKeys == {Str(k) : k \in {"F", "F|contains", "F|startswith", "F|endswith", "F|re"}}

LookupPatterns == {Str(p) : p \in {"*", "", "a", "a*", ".*"}}

\* The fields of the entries: none, other fields, F under both spellings.
LookupFields ==
  {<<>>, <<Field(Str("G"), Str("a"))>>, <<Field(Str("FF"), Str("a"))>>,
   <<Field(Str("G"), Str("a")), Field(Str("f"), Str("a"))>>,
   <<Field(Str("F"), Str("a"))>>, <<Field(Str("F"), <<>>)>>, <<Field(Str("F"), Str("b"))>>}

InitLookup ==
  Start({AtomDoc(k, JString(p), Str("selection")) : k \in LookupKeys, p \in LookupPatterns})

MatchLookup == ExprMatches({LogEntry(Str("a"), f) : f \in LookupFields}, {NoPlaceholders})

NextLookup == ParseRule \/ MatchLookup

SpecLookup == InitLookup /\ [][NextLookup]_vars

\* The last entry has a key equal to the name, letter case aside.
HasField(name) ==
  \E i \in 1..Len(entry.fields) : ToLowerCase(entry.fields[i].key) = ToLowerCase(name)

\* C11 as stated: an atom on a named field is no match for an entry that
\* has no key equal to the name (letter case aside), whatever its patterns
\* and modifiers are.
MissingFieldIsNoMatch ==
  (pc = "matched" /\ ~HasField(Str("F"))) => result = "false"

\* The atom F: '*' matches an entry without fields.
MissingFieldMatches ==
  /\ pc = "matched"
  /\ AtomKey = Str("F")
  /\ AtomPatterns = {Str("*")}
  /\ entry.fields = <<>>
  /\ result = "true"

(**************************************************************************)
(* Modifier vocabulary: atoms on the field F with one or two modifier     *)
(* tokens, known and unknown.                                             *)
(**************************************************************************)

\* The ten modifier tokens.
KnownModifiers ==
  {mAll, mBase64, mBase64offset, mCidr, mContains, mEndswith, mExpand, mRe, mStartswith,
   mWindash}

\* Tokens outside the vocabulary: the empty token, wrong-case spellings
\* and another word.
UnknownModifiers == {<<>>, Str("Contains"), Str("RE"), Str("regex")}

ModifierTokens == KnownModifiers \cup UnknownModifiers

ModifierKeys ==
  {Str("F|") \o m : m \in ModifierTokens}
    \cup {Str("F|") \o m1 \o Str("|") \o m2 : m1 \in ModifierTokens, m2 \in ModifierTokens}

\* A value every pattern type accepts, and a placeholder.
ModifierValues == {Str("10.0.0.0/8"), Str("%a%")}

InitModifier ==
  Start({AtomDoc(k, JString(v), Str("selection")) : k \in ModifierKeys, v \in ModifierValues})

MatchModifier ==
  ExprMatches({LogEntry(<<>>, <<Field(Str("F"), v)>>) : v \in {Str("10.0.0.1"), Str("%a%")}},
              {NoPlaceholders})

NextModifier == ParseRule \/ MatchModifier

SpecModifier == InitModifier /\ [][NextModifier]_vars

\* The modifier tokens of the key of the document in hand: what follows
\* the field name, cut at every `|`.
TokensOfKey == LET parts == SplitOn(AtomKey, {"|"}) IN {parts[i] : i \in 2..Len(parts)}

\* The messages of the validation errors of an atom.
ValidationMessages ==
  {"unknown modifier", "expand can only be the first modifier",
   "placeholder must start and end with '%'", "pattern: not a valid CIDR",
   "pattern: invalid regular expression", "no patterns"}

\* C12: parseRule returns a rule only if every modifier token of the key
\* is one of the ten known tokens, spelled exactly; a key with any other
\* token (the empty token and a wrong-case spelling included) makes it
\* fail with a SigmaError that carries a validation message.
ModifiersAreKnown ==
  /\ pc \in {"parsed", "matched"} => TokensOfKey \subseteq KnownModifiers
  /\ (pc # "input" /\ ~(TokensOfKey \subseteq KnownModifiers)) =>
       /\ pc = "failed"
       /\ rule.cls = "SigmaError"
       /\ rule.msg \in ValidationMessages

\* F|contains|Contains fails with the unknown-modifier error.
ModifierWitness ==
  /\ pc = "failed"
  /\ AtomKey = Str("F|contains|Contains")
  /\ rule.cls = "SigmaError"
  /\ rule.msg = "unknown modifier"

(**************************************************************************)
(* The tree of a parsed rule, read from its root.                         *)
(**************************************************************************)

RECURSIVE NodesUnder(_, _)
\* The heap indices of the node id and of everything below it.
NodesUnder(heap, id) ==
  {id} \cup UNION {NodesUnder(heap, heap[id].x[k]) : k \in 1..Len(heap[id].x)}

\* The atoms of the tree of the rule in hand.
TreeAtoms ==
  {id \in NodesUnder(rule.rule.heap, rule.rule.expr) : rule.rule.heap[id].k = "SearchAtom"}

(**************************************************************************)
(* Pattern lists: rules with the one search identifier `sel`, whose value *)
(* is a string, a list or a map, with and without patterns.               *)
(**************************************************************************)

PatternsValues ==
  {JArray(<<>>), JStrings(<<Str("a")>>), JStrings(<<Str("a"), Str("b")>>), JString(Str("a")),
   JString(<<>>),
   JObject(<<KV(Str("F"), JArray(<<>>))>>),
   JObject(<<KV(Str("F"), JStrings(<<Str("a"), Str("b")>>))>>),
   JObject(<<KV(Str("F"), JString(Str("a"))), KV(Str("G"), JArray(<<>>))>>),
   JObject(<<KV(Str("F|contains"), JString(Str("a"))), KV(Str("G"), JString(Str("b")))>>),
   JObject(<<KV(Str("F|re"), JString(Str("(")))>>),
   JObject(<<>>),
   JArray(<<JObject(<<KV(Str("F"), JArray(<<>>))>>)>>),
   JArray(<<JObject(<<KV(Str("F"), JString(Str("a")))>>), JString(Str("b"))>>),
   JArray(<<JArray(<<>>)>>),
   JArray(<<JObject(<<>>), JString(Str("a"))>>)}

PatternsDoc(value, condition) ==
  RuleDoc(JObject(<<KV(Str("sel"), value), KV(kCondition, JString(condition))>>))

PatternsEntries ==
  {LogEntry(m, f) : m \in {Str("a"), Str("b"), <<>>},
                    f \in {<<>>, <<Field(Str("F"), Str("a"))>>, <<Field(Str("F"), Str("b"))>>,
                           <<Field(Str("F"), Str("a")), Field(Str("G"), Str("b"))>>}}

InitPatterns ==
  Start({PatternsDoc(v, Str(c)) : v \in PatternsValues, c \in {"sel", "not sel"}})

MatchPatterns == ExprMatches(PatternsEntries, {NoPlaceholders})

NextPatterns == ParseRule \/ MatchPatterns

SpecPatterns == InitPatterns /\ [][NextPatterns]_vars

\* C13 as stated: every atom in the tree of a parsed rule has a non-empty
\* pattern list and passes validate(); a block that would give an atom
\* without patterns is rejected by parseRule.
AtomsHavePatterns ==
  pc \in {"parsed", "matched"} =>
    \A id \in TreeAtoms :
      /\ Len(rule.rule.heap[id].patterns) > 0
      /\ validate(rule.rule.heap[id]) = ""

\* The rule with `sel: []` is parsed, and its tree has an atom without
\* patterns.
EmptyListParsed ==
  /\ pc = "parsed"
  /\ Get(Get(doc, kDetection), Str("sel")) = JArray(<<>>)
  /\ \E id \in TreeAtoms : rule.rule.heap[id].patterns = <<>>

(**************************************************************************)
(* The matcher cache: one atom on the field User, matched again and again *)
(* with changing entries and placeholder tables.                          *)
(**************************************************************************)

CacheKeys == {Str(k) : k \in {"User|expand", "User|expand|contains", "User|contains"}}

CachePlaceholderLists == {<<Str("%ws%")>>, <<Str("%ws%"), Str("%adm%")>>}

\* Tables whose values for the placeholders are the same list, different
\* lists, and lists that differ only in where one value ends and the next
\* begins.
CacheTables ==
  {NoPlaceholders,
   Placeholders(<<Placeholder("ws", <<Str("a"), Str("b")>>)>>),
   Placeholders(<<Placeholder("ws", <<Str("a\",\"b")>>)>>),
   Placeholders(<<Placeholder("ws", <<Str("a,b")>>)>>),
   Placeholders(<<Placeholder("ws", <<Str("a")>>), Placeholder("adm", <<Str("b")>>)>>),
   Placeholders(<<Placeholder("ws", <<Str("b")>>)>>)}

CacheValues == {Str(v) : v \in {"a", "b", "a\",\"b", "a,b", "xax", "%ws%"}}

InitCache ==
  Start({AtomDoc(k, JStrings(ps), Str("selection")) :
           k \in CacheKeys, ps \in CachePlaceholderLists})

MatchCache ==
  ExprMatches({LogEntry(<<>>, <<Field(Str("User"), v)>>) : v \in CacheValues}, CacheTables)

NextCache == ParseRule \/ MatchCache

SpecCache == InitCache /\ [][NextCache]_vars

\* The heap with every atom as it was constructed: nothing compiled yet.
FreshHeap(heap) == [i \in DOMAIN heap |-> [heap[i] EXCEPT !._compiledCache = NoCache]]

\* The matcher an atom holds is the one a fresh atom builds for the
\* pattern list its key was made from, one of the lists the tables give.
CacheHoldsBuiltMatcher(atom) ==
  atom._compiledCache.has =>
    \E p \in CacheTables :
      LET patterns == _expandPatterns(atom, p)
      IN /\ patterns # <<>>
         /\ atom._compiledCache.key = CacheKey(patterns, atom.modifiers, atom.field)
         /\ atom._compiledCache.compiled
              = _compile([atom EXCEPT !._compiledCache = NoCache], patterns).compiled

\* C14: after any sequence of exprMatches calls on the atom, with changing
\* entries and placeholder tables, the last call has returned what a
\* freshly constructed atom returns for its entry and table, and the
\* matcher the atom keeps is the one built for the pattern list of its
\* cache key: it is reused only for the same patterns, modifiers and
\* field, never stale.
CacheIsNeverStale ==
  pc = "matched" =>
    /\ result = exprMatches(FreshHeap(rule.rule.heap), rule.rule.expr, entry, opts).r
    /\ \A id \in TreeAtoms : CacheHoldsBuiltMatcher(rule.rule.heap[id])

\* A call without a table, on an atom that keeps the matcher of an
\* earlier call with a table: no match for the value a, which that
\* matcher accepts.
CacheWitness ==
  /\ pc = "matched"
  /\ ~opts.has
  /\ AtomKey = Str("User|expand")
  /\ \E id \in TreeAtoms :
       /\ rule.rule.heap[id]._compiledCache.has
       /\ CompiledMatches(rule.rule.heap[id]._compiledCache.compiled, Str("a"))
  /\ ValueOfF = Str("a")
  /\ result = "false"

(**************************************************************************)
(* The shape of a tree, written as a text: an identifier by its name,     *)
(* not(x), and(x,y,...), or(x,y,...), and `atom` for an atom that is not  *)
(* under a name.                                                          *)
(**************************************************************************)

\* kind(x,y,...) for the texts of the children.
ShapeOf(kind, kids) == Str(kind) \o <<"(">> \o Join(kids, <<",">>) \o <<")">>

RECURSIVE Shape(_, _)
\* The shape of the tree at heap index id.
Shape(heap, id) ==
  CASE heap[id].k = "NamedExpr" -> heap[id].name
    [] heap[id].k = "NotExpr" -> ShapeOf("not", <<Shape(heap, heap[id].x[1])>>)
    [] heap[id].k = "AndExpr" ->
         ShapeOf("and", [k \in 1..Len(heap[id].x) |-> Shape(heap, heap[id].x[k])])
    [] heap[id].k = "OrExpr" ->
         ShapeOf("or", [k \in 1..Len(heap[id].x) |-> Shape(heap, heap[id].x[k])])
    [] OTHER -> Str("atom")

\* The shape of the tree of the rule in hand.
RuleShape == Shape(rule.rule.heap, rule.rule.expr)

\* One node for a chain of operands: the operand itself when it is alone.
ChainShape(kind, kids) == IF Len(kids) = 1 THEN kids[1] ELSE ShapeOf(kind, kids)

RECURSIVE StdShapeOr(_, _), StdShapeOrTail(_, _, _), StdShapeAnd(_, _),
          StdShapeAndTail(_, _, _), StdShapeUnary(_, _)
\* The shape the grammar gives the words of a condition over the
\* identifier names (a sorted sequence): an or-chain of and-chains of
\* operands, one child per operand; an operand is an identifier, a `not`
\* term, a quantifier (the identifiers it selects, in order, under one
\* Or or And, or the identifier alone) or a parenthesized condition.
\* Each level returns [ok, t, rest].
StdShapeUnary(toks, names) ==
  LET bad == [ok |-> FALSE, t |-> <<"?">>, rest |-> <<>>]
  IN IF toks = <<>> THEN bad
     ELSE IF Head(toks) = tNot
     THEN LET r == StdShapeUnary(Tail(toks), names)
          IN [r EXCEPT !.t = ShapeOf("not", <<r.t>>)]
     ELSE IF Head(toks) = Str("(")
     THEN LET r == StdShapeOr(Tail(toks), names)
          IN IF r.ok /\ r.rest # <<>> /\ Head(r.rest) = Str(")")
             THEN [r EXCEPT !.rest = Tail(r.rest)] ELSE bad
     ELSE IF Head(toks) \in {tOne, tAll}
     THEN IF Len(toks) < 3 \/ toks[2] # tOf THEN bad
          ELSE LET selected == SelectSeq(names, LAMBDA n : toks[3] = tThem \/ StarMatch(toks[3], n))
               IN IF selected = <<>> THEN bad
                  ELSE [ok |-> TRUE,
                        t |-> ChainShape(IF Head(toks) = tOne THEN "or" ELSE "and", selected),
                        rest |-> SubSeq(toks, 4, Len(toks))]
     ELSE IF Includes(names, Head(toks))
     THEN [ok |-> TRUE, t |-> Head(toks), rest |-> Tail(toks)]
     ELSE bad

StdShapeAndTail(kids, l, names) ==
  IF l.ok /\ l.rest # <<>> /\ Head(l.rest) = tAnd
  THEN LET r == StdShapeUnary(Tail(l.rest), names)
       IN StdShapeAndTail(Append(kids, r.t), r, names)
  ELSE [ok |-> l.ok, t |-> ChainShape("and", kids), rest |-> l.rest]

StdShapeAnd(toks, names) ==
  LET l == StdShapeUnary(toks, names) IN StdShapeAndTail(<<l.t>>, l, names)

StdShapeOrTail(kids, l, names) ==
  IF l.ok /\ l.rest # <<>> /\ Head(l.rest) = tOr
  THEN LET r == StdShapeAnd(Tail(l.rest), names)
       IN StdShapeOrTail(Append(kids, r.t), r, names)
  ELSE [ok |-> l.ok, t |-> ChainShape("or", kids), rest |-> l.rest]

StdShapeOr(toks, names) ==
  LET l == StdShapeAnd(toks, names) IN StdShapeOrTail(<<l.t>>, l, names)

\* The shape of a whole condition, `?` when it is not well-formed.
StdShape(condition, names) ==
  LET r == StdShapeOr(Words(condition), names)
  IN IF r.ok /\ r.rest = <<>> THEN r.t ELSE <<"?">>

(**************************************************************************)
(* Condition lists: rules over the identifiers a, b, c whose condition    *)
(* is a string or a list of one, two or three strings.                    *)
(**************************************************************************)

ListConditions == {Str(c) : c \in {"a", "a and b", "not c", "b or c", "a or b and c"}}

\* The condition values: a string, and the lists.
ListValues ==
  {JString(c) : c \in ListConditions}
    \cup {JStrings(<<c>>) : c \in ListConditions}
    \cup {JStrings(<<c1, c2>>) : c1 \in ListConditions, c2 \in ListConditions}
    \cup {JStrings(<<c1, c2, c3>>) :
            c1 \in ListConditions, c2 \in ListConditions, c3 \in {Str("not c"), Str("a")}}

\* The detection block with the identifiers of CondNames (written c, a, b)
\* and the condition value.
ListDoc(value) ==
  LET id(n) == KV(Str(n), JObject(<<KV(Str("f") \o Str(n), JString(Str("1")))>>))
  IN RuleDoc(JObject(<<id("c"), id("a"), id("b"), KV(kCondition, value)>>))

InitList == Start({ListDoc(v) : v \in ListValues})

MatchList == ExprMatches(CondEntries, {NoPlaceholders})

NextList == ParseRule \/ MatchList

SpecList == InitList /\ [][NextList]_vars

\* The condition strings of the document in hand, in list order.
ConditionsOf(d) ==
  LET value == Get(Get(d, kDetection), kCondition)
  IN IF value.t = "string" THEN <<value.s>>
     ELSE [i \in 1..Len(value.items) |-> value.items[i].value.s]

ABC == <<Str("a"), Str("b"), Str("c")>>

\* C15: a list of n >= 2 conditions gives one Or at the root, whose n
\* children are the trees of the conditions in list order, and the rule
\* matches exactly when one of the conditions does; one condition, as a
\* string or as a list of one, gives its own tree without an Or around it.
ConditionListIsOr ==
  LET conds == ConditionsOf(doc)
      root == rule.rule.heap[rule.rule.expr]
  IN /\ pc # "failed"
     /\ pc \in {"parsed", "matched"} =>
          IF Len(conds) = 1 THEN RuleShape = StdShape(conds[1], ABC)
          ELSE /\ root.k = "OrExpr"
               /\ Len(root.x) = Len(conds)
               /\ \A i \in 1..Len(conds) :
                    Shape(rule.rule.heap, root.x[i]) = StdShape(conds[i], ABC)
     /\ pc = "matched" =>
          result = IF \E i \in 1..Len(conds) : StdOr(Words(conds[i])).v
                   THEN "true" ELSE "false"

\* The list [a and b, not c] on an entry where only c matches: no
\* condition matches, no match.
ConditionListWitness ==
  /\ pc = "matched"
  /\ ConditionsOf(doc) = <<Str("a and b"), Str("not c")>>
  /\ RuleShape = Str("or(and(a,b),not(c))")
  /\ ~IdentifierMatches(Str("a")) /\ ~IdentifierMatches(Str("b")) /\ IdentifierMatches(Str("c"))
  /\ result = "false"

(**************************************************************************)
(* The tree of a quantifier, for the rules of the quantifier section.     *)
(**************************************************************************)

\* The names the quantifier of the condition in hand selects, in
\* lexicographic order.
QuantSelectedSorted == SelectSeq(SortStrings(NamesOf(doc)), LAMBDA n : n \in QuantSelected)

\* C16: for a condition that is one quantifier: a quantifier that selects
\* no identifier makes the parse fail; one that selects a single
\* identifier gives that identifier's Named expression itself; one that
\* selects k >= 2 identifiers gives an Or (`1 of`) or an And (`all of`)
\* whose children are exactly those k Named expressions.
QuantifierExpansion ==
  LET sel == QuantSelectedSorted
      root == rule.rule.heap[rule.rule.expr]
      named(n) == IdentifierOf(rule.rule.identifiers, n)
  IN pc # "input" =>
       IF sel = <<>> THEN pc = "failed" /\ rule.cls = "SigmaError"
       ELSE /\ pc # "failed"
            /\ IF Len(sel) = 1
               THEN /\ root.k = "NamedExpr" /\ root.name = sel[1]
                    /\ rule.rule.expr = named(sel[1])
               ELSE /\ root.k = (IF Words(ConditionOf(doc))[1] = tOne THEN "OrExpr"
                                 ELSE "AndExpr")
                    /\ root.x = [i \in 1..Len(sel) |-> named(sel[i])]
                    /\ \A i \in 1..Len(sel) :
                         /\ rule.rule.heap[root.x[i]].k = "NamedExpr"
                         /\ rule.rule.heap[root.x[i]].name = sel[i]

\* `all of *a` over sb, sel_b and ta selects ta alone: the tree is the
\* Named expression ta, without an And around it.
QuantifierExpansionWitness ==
  /\ pc = "parsed"
  /\ ConditionOf(doc) = Str("all of *a")
  /\ NamesOf(doc) = {Str("sb"), Str("sel_b"), Str("ta")}
  /\ RuleShape = Str("ta")

(**************************************************************************)
(* Identifier order: rules over the identifiers C, a, b, written in every *)
(* order, with values the builder accepts and rejects.                    *)
(**************************************************************************)

OrderNames == {Str("C"), Str("a"), Str("b")}

\* The names in every order of writing.
OrderPermutations ==
  {w \in OrderNames \X OrderNames \X OrderNames : w[1] # w[2] /\ w[1] # w[3] /\ w[2] # w[3]}

\* The value of an identifier by its kind: an atom asking for 1 in the
\* field f<name>, an empty map, a number.
OrderValue(name, kind) ==
  CASE kind = "atom" -> JObject(<<KV(Str("f") \o name, JString(Str("1")))>>)
    [] kind = "empty" -> JObject(<<>>)
    [] OTHER -> JNumber(1)

\* The kinds of the values of C, a and b.
OrderKinds ==
  {<<"atom", "atom", "atom">>, <<"atom", "empty", "atom">>, <<"number", "atom", "empty">>,
   <<"atom", "number", "empty">>, <<"empty", "empty", "number">>}

KindOf(kinds, name) ==
  CASE name = Str("C") -> kinds[1] [] name = Str("a") -> kinds[2] [] OTHER -> kinds[3]

OrderConditions == {Str(c) : c \in {"1 of them", "all of them", "b and C", "1 of *", "all of a*"}}

\* The rule with the identifiers in the order `written`.
OrderDoc(written, kinds, condition) ==
  RuleDoc(JObject([i \in 1..3 |-> KV(written[i], OrderValue(written[i], KindOf(kinds, written[i])))]
                  \o <<KV(kCondition, JString(condition))>>))

OrderEntries ==
  {LogEntry(<<>>, <<Field(Str("fC"), vc), Field(Str("fa"), va), Field(Str("fb"), vb)>>) :
     va \in {Str("0"), Str("1")}, vb \in {Str("0"), Str("1")}, vc \in {Str("0"), Str("1")}}

InitOrder ==
  Start({OrderDoc(w, k, c) : w \in OrderPermutations, k \in OrderKinds, c \in OrderConditions})

MatchOrder == ExprMatches(OrderEntries, {NoPlaceholders})

NextOrder == ParseRule \/ MatchOrder

SpecOrder == InitOrder /\ [][NextOrder]_vars

\* The document in hand with its identifiers written in the order C, a, b.
WrittenInOrder(d) ==
  RuleDoc(JObject([i \in 1..3 |->
                     KV(<<Str("C"), Str("a"), Str("b")>>[i],
                        Get(Get(d, kDetection), <<Str("C"), Str("a"), Str("b")>>[i]))]
                  \o <<KV(kCondition, Get(Get(d, kDetection), kCondition))>>))

\* C17: whatever the order in which the identifiers are written, parseRule
\* gives what it gives for the rule with the identifiers written in
\* lexicographic order: the same error, or the same tree, with the
\* identifier table in the order C, a, b and the children of a `them` or
\* glob quantifier in that order.
OrderIndependent ==
  LET sorted == parseRule(WrittenInOrder(doc))
  IN pc # "input" =>
       /\ rule.cls = sorted.cls /\ rule.msg = sorted.msg
       /\ pc \in {"parsed", "matched"} =>
            /\ FreshHeap(rule.rule.heap) = sorted.rule.heap
            /\ rule.rule.expr = sorted.rule.expr
            /\ [i \in 1..Len(rule.rule.identifiers) |-> rule.rule.identifiers[i].name]
                 = <<Str("C"), Str("a"), Str("b")>>
            /\ ConditionOf(doc) \in {Str("1 of them"), Str("1 of *")}
                 => RuleShape = Str("or(C,a,b)")
            /\ ConditionOf(doc) = Str("all of them") => RuleShape = Str("and(C,a,b)")

\* The identifiers written b, a, C: `1 of them` is the Or of C, a, b.
OrderWitness ==
  /\ pc = "parsed"
  /\ KeysOf(Get(doc, kDetection).items) = <<Str("b"), Str("a"), Str("C"), kCondition>>
  /\ ConditionOf(doc) = Str("1 of them")
  /\ RuleShape = Str("or(C,a,b)")

\* The identifiers written b, a, C, with an empty map for b and a number
\* for C: the error is the one of C, the first in order.
OrderErrorWitness ==
  /\ pc = "failed"
  /\ KeysOf(Get(doc, kDetection).items) = <<Str("b"), Str("a"), Str("C"), kCondition>>
  /\ Get(Get(doc, kDetection), Str("b")) = JObject(<<>>)
  /\ rule.msg = "unsupported value"

(**************************************************************************)
(* Windash atoms on the field F, alone and with contains, startswith and  *)
(* endswith.                                                              *)
(**************************************************************************)

WindashKeys ==
  {Str(k) : k \in {"F|windash", "F|contains|windash", "F|windash|startswith",
                   "F|endswith|windash"}}

WindashPatterns == {Str(p) : p \in {"-c", "/c", "a-b", "--c", "-c -d", "c-", "-c*"}}

WindashValues ==
  {Str(v) : v \in {"powershell -c foo", "powershell /c foo", "powershell foo", "-c", "/c",
                   "-C", "c", "a-b", "a/b", "--c", "-/c", "/-c", "//c", "-c -d", "/c -d",
                   "-c /d", "/c /d", "c-", "c/", "-c*", "/c*", "/cx", "x-c"}}
    \cup {<<d, "c">> : d \in {"<endash>", "<emdash>", "<horizontalbar>"}}
    \cup {Str("powershell ") \o <<"<emdash>", "c">>}

InitWindash ==
  Start({AtomDoc(k, JString(p), Str("selection")) : k \in WindashKeys, p \in WindashPatterns})

MatchWindash ==
  ExprMatches({LogEntry(<<>>, <<Field(Str("F"), v)>>) : v \in WindashValues}, {NoPlaceholders})

NextWindash == ParseRule \/ MatchWindash

SpecWindash == InitWindash /\ [][NextWindash]_vars

\* The five dash characters.
ParamDashes == {"-", "/", "<endash>", "<emdash>", "<horizontalbar>"}

\* The places of a pattern where a parameter dash stands: a `-` or `/`
\* that starts a word, with a word character after it and none before it.
DashPlaces(p) ==
  {i \in 1..(Len(p) - 1) :
     /\ p[i] \in {"-", "/"}
     /\ IsWordChar(p[i + 1])
     /\ (i = 1 \/ ~IsWordChar(p[i - 1]))}

\* The pattern with its first parameter dash replaced by each of the five
\* dashes; the pattern alone when it has none.
DashVariants(p) ==
  IF DashPlaces(p) = {} THEN {p}
  ELSE LET i == CHOOSE j \in DashPlaces(p) : \A k \in DashPlaces(p) : j <= k
       IN {[p EXCEPT ![i] = d] : d \in ParamDashes}

\* The text t occurs in the value v as the modifiers ask (anywhere, at the
\* start, at the end, or as the whole value), letter case aside and every
\* character standing for itself.
TextHits(t, v) ==
  LET same(a, b) == ToLowerCase(a) = ToLowerCase(b)
  IN IF mContains \in AtomModifiers THEN Occurs(t, v)
     ELSE IF mStartswith \in AtomModifiers
     THEN Len(t) <= Len(v) /\ same(SubSeq(v, 1, Len(t)), t)
     ELSE IF mEndswith \in AtomModifiers
     THEN Len(t) <= Len(v) /\ same(SubSeq(v, Len(v) - Len(t) + 1, Len(v)), t)
     ELSE same(t, v)

\* C18: a windash atom matches a value exactly when the value matches the
\* pattern, or the pattern with its first parameter dash (a `-` or `/` at
\* the start of a word) replaced by one of the five dash characters; the
\* pattern -c with contains|windash matches `powershell -c foo` and
\* `powershell /c foo` and not `powershell foo`.
WindashMatchesEveryDash ==
  pc = "matched" =>
    /\ \A p \in AtomPatterns :
         result = IF \E t \in DashVariants(p) : TextHits(t, ValueOfF) THEN "true" ELSE "false"
    /\ (AtomKey = Str("F|contains|windash") /\ AtomPatterns = {Str("-c")}) =>
         /\ ValueOfF \in {Str("powershell -c foo"), Str("powershell /c foo")} => result = "true"
         /\ ValueOfF = Str("powershell foo") => result = "false"

\* -c with contains|windash matches powershell /c foo.
WindashWitness ==
  /\ pc = "matched"
  /\ AtomKey = Str("F|contains|windash")
  /\ AtomPatterns = {Str("-c")}
  /\ ValueOfF = Str("powershell /c foo")
  /\ result = "true"

(**************************************************************************)
(* Chains: conditions over the identifiers a, b, c that join two or three *)
(* operands with one operator, and some that mix the operators.           *)
(**************************************************************************)

\* The operands, as token sequences: identifiers, a `not` term,
\* parenthesized conditions and quantifiers.
ChainOperands ==
  {<<Str("a")>>, <<Str("c")>>, <<tNot, Str("b")>>,
   <<Str("("), Str("a"), tAnd, Str("b"), Str(")")>>,
   <<Str("("), Str("b"), tOr, Str("c"), Str(")")>>,
   <<tOne, tOf, tThem>>, <<tAll, tOf, tThem>>}

ChainTokens ==
  {x \o <<op>> \o y : x \in ChainOperands, y \in ChainOperands, op \in {tAnd, tOr}}
    \cup {x \o <<op>> \o y \o <<op>> \o z :
            x \in ChainOperands,
            y \in {<<Str("a")>>, <<tNot, Str("b")>>, <<Str("("), Str("b"), tOr, Str("c"), Str(")")>>},
            z \in {<<Str("c")>>, <<tAll, tOf, tThem>>}, op \in {tAnd, tOr}}
    \cup {<<Str("a"), tAnd, Str("b"), tOr, Str("c")>>,
          <<Str("a"), tOr, Str("b"), tAnd, Str("c"), tOr, Str("a")>>,
          <<Str("a"), tAnd, Str("b"), tOr, Str("c"), tAnd, Str("a")>>}

InitChain == Start({CondDoc(t) : t \in ChainTokens})

MatchChain == ExprMatches(CondEntries, {NoPlaceholders})

NextChain == ParseRule \/ MatchChain

SpecChain == InitChain /\ [][NextChain]_vars

\* C19 as stated: a chain of n >= 2 operands joined by one operator is
\* parsed into a single And or Or with exactly n children in source
\* order, each operand (identifier, `not` term, quantifier result,
\* parenthesized condition) being one child.
ChainsAreFlat ==
  pc \in {"parsed", "matched"} => RuleShape = StdShape(ConditionOf(doc), ABC)

\* ( a and b ) and c is parsed into one And with the three children a, b
\* and c.
ParenthesesMerged ==
  /\ pc = "parsed"
  /\ ConditionOf(doc) = Str("( a and b ) and c")
  /\ RuleShape = Str("and(a,b,c)")

\* a and not b and c is parsed into one And with three children.
ChainOfThree ==
  /\ pc = "parsed"
  /\ ConditionOf(doc) = Str("a and not b and c")
  /\ RuleShape = Str("and(a,not(b),c)")

(**************************************************************************)
(* Quantifier patterns: `1 of <pattern>` / `all of <pattern>` with        *)
(* patterns that hold characters other than name characters and `*`.      *)
(**************************************************************************)

\* The identifier tables.
PatternTables ==
  {<<Str("sel_a"), Str("sel_b")>>, <<Str("sel_a"), Str("selxa"), Str("s")>>,
   <<Str("sel.a"), Str("sel_a"), Str("ss")>>, <<Str("sel_a"), Str("Sel_a")>>}

PatternWords ==
  {Str(p) : p \in {"sel_a", "sel_*", "*a", "Sel_*", "sel_.", "sel.a", "s+", "sel_[ab]", "s*l.a"}}

PatternEntries ==
  {LogEntry(<<>>, <<Field(Str("fsel_a"), v1), Field(Str("fsel_b"), v2),
                    Field(Str("fselxa"), v3), Field(Str("fsel.a"), v4)>>) :
     v1 \in {Str("0"), Str("1")}, v2 \in {Str("0"), Str("1")},
     v3 \in {Str("0"), Str("1")}, v4 \in {Str("0"), Str("1")}}

InitPattern ==
  Start({QuantDoc(names, Join(<<q, tOf, p>>, Str(" "))) :
           names \in PatternTables, q \in {tOne, tAll}, p \in PatternWords})

MatchPattern == ExprMatches(PatternEntries, {NoPlaceholders})

NextPattern == ParseRule \/ MatchPattern

SpecPattern == InitPattern /\ [][NextPattern]_vars

\* The names of the identifiers in the tree of the rule in hand.
TreeNames ==
  {rule.rule.heap[id].name :
     id \in {n \in NodesUnder(rule.rule.heap, rule.rule.expr) :
               rule.rule.heap[n].k = "NamedExpr"}}

\* C20 as stated: the quantifier selects exactly the identifiers whose
\* whole name matches the pattern read as a glob, case-sensitively: `*`
\* stands for any run of characters and every other character only for
\* itself; a pattern without `*` selects at most the identifier of that
\* name.
QuantifierPatternIsGlob ==
  LET pattern == Words(ConditionOf(doc))[3]
      selected == {n \in NamesOf(doc) : StarMatch(pattern, n)}
  IN pc # "input" =>
       IF selected = {} THEN pc = "failed"
       ELSE pc # "failed" /\ TreeNames = selected

\* `1 of sel_.` over sel_a and sel_b, neither of which is named sel_. : it
\* is parsed into the Or of both.
DotSelectsAnyCharacter ==
  /\ pc = "parsed"
  /\ ConditionOf(doc) = Str("1 of sel_.")
  /\ NamesOf(doc) = {Str("sel_a"), Str("sel_b")}
  /\ RuleShape = Str("or(sel_a,sel_b)")

(**************************************************************************)
(* Anchoring by interpretation: atoms on the field F with one of the      *)
(* modifiers re, base64, base64offset, windash, or none.                  *)
(**************************************************************************)

AnchorKeys == {Str(k) : k \in {"F", "F|re", "F|base64", "F|base64offset", "F|windash"}}

AnchorPatterns == {Str(p) : p \in {"a", "ab", "-c"}}

\* Values that are a pattern, its base64 encoding, a variant of it, and
\* values that hold one of these between other characters.
AnchorValues ==
  {Str(v) : v \in {"a", "ab", "-c", "/c", "xax", "xab", "x-cx", "YQ==", "xYQ==x", "YWI=",
                   "xYWI=x", "LWM=", "YW", "Fi", "hY", "xYWx", "xhYx", "b"}}

InitAnchor ==
  Start({AtomDoc(k, JString(p), Str("selection")) : k \in AnchorKeys, p \in AnchorPatterns})

MatchAnchor ==
  ExprMatches({LogEntry(<<>>, <<Field(Str("F"), v)>>) : v \in AnchorValues}, {NoPlaceholders})

NextAnchor == ParseRule \/ MatchAnchor

SpecAnchor == InitAnchor /\ [][NextAnchor]_vars

\* The pattern p matches the value v from its first to its last character,
\* letter case aside, under the interpretation the modifiers of the key
\* in hand ask for.
WholeMatch(p, v) ==
  IF mRe \in AtomModifiers
  THEN ReTest(RegExpNew(<<"^">> \o Group(p) \o <<"$">>), v, TRUE)
  ELSE IF mBase64offset \in AtomModifiers
  THEN \E k \in 1..Len(base64Permute(p)) : ToLowerCase(base64Permute(p)[k]) = ToLowerCase(v)
  ELSE IF mBase64 \in AtomModifiers
  THEN ToLowerCase(Base64Encode(Utf8Bytes(p))) = ToLowerCase(v)
  ELSE IF mWindash \in AtomModifiers
  THEN \E t \in DashVariants(p) : ToLowerCase(t) = ToLowerCase(v)
  ELSE GlobMatch(p, v)

\* C21 as stated: an atom on a named field without contains, startswith,
\* endswith and cidr matches only when one of its patterns matches the
\* whole field value, under re, base64, base64offset and windash as under
\* plain globs.
WholeValueRequired ==
  (pc = "matched" /\ result = "true") => \E p \in AtomPatterns : WholeMatch(p, ValueOfF)

\* F|re: a matches the value xax.
RegexIsUnanchored ==
  /\ pc = "matched"
  /\ AtomKey = Str("F|re")
  /\ AtomPatterns = {Str("a")}
  /\ ValueOfF = Str("xax")
  /\ result = "true"

\* F|base64offset: ab matches a value that holds the variant YW between
\* other characters.
Base64offsetIsUnanchored ==
  /\ pc = "matched"
  /\ AtomKey = Str("F|base64offset")
  /\ AtomPatterns = {Str("ab")}
  /\ ValueOfF = Str("xYWx")
  /\ result = "true"

\* F|base64: a does not match xYQ==x, which holds its encoding YQ== between
\* other characters.
Base64IsAnchored ==
  /\ pc = "matched"
  /\ AtomKey = Str("F|base64")
  /\ AtomPatterns = {Str("a")}
  /\ ValueOfF = Str("xYQ==x")
  /\ result = "false"

(**************************************************************************)
(* The all modifier: atoms on the field F with two patterns, as globs,    *)
(* as regular expressions and as networks, with and without all.          *)
(**************************************************************************)

AllKeys == {Str(k) : k \in {"F", "F|all", "F|re", "F|re|all", "F|cidr", "F|cidr|all"}}

AllPatternLists ==
  {<<Str("a*"), Str("*b")>>, <<Str("a"), Str("b")>>,
   <<Str("10.0.0.0/8"), Str("192.168.0.0/16")>>, <<Str("10.0.0.0/8"), Str("10.1.0.0/16")>>}

AllValues ==
  {Str(v) : v \in {"ab", "ax", "a", "x", "10.1.2.3", "10.255.0.1", "192.168.7.9", "11.1.2.3"}}

InitAll ==
  Start({AtomDoc(k, JStrings(ps), Str("selection")) : k \in AllKeys, ps \in AllPatternLists})

MatchAll ==
  ExprMatches({LogEntry(<<>>, <<Field(Str("F"), v)>>) : v \in AllValues}, {NoPlaceholders})

NextAll == ParseRule \/ MatchAll

SpecAll == InitAll /\ [][NextAll]_vars

\* The atom of the rule in hand.
TheAtom ==
  rule.rule.heap[CHOOSE i \in 1..Len(rule.rule.heap) : rule.rule.heap[i].k = "SearchAtom"]

\* The atom of the rule in hand with the pattern p alone matches the last
\* entry.
MatchesAlone(p) ==
  AtomExprMatches([TheAtom EXCEPT !.patterns = <<p>>, !._compiledCache = NoCache],
                  entry, opts).r = "true"

\* C22 as stated: with all an atom matches exactly when every one of its
\* patterns matches on its own, without all when at least one does,
\* for globs, regular expressions and networks alike.
AllMeansEveryPattern ==
  pc = "matched" =>
    ((result = "true") = IF mAll \in AtomModifiers
                         THEN \A p \in AtomPatterns : MatchesAlone(p)
                         ELSE \E p \in AtomPatterns : MatchesAlone(p))

\* F|cidr|all with 10.0.0.0/8 and 192.168.0.0/16 matches 10.1.2.3, which
\* is outside the second network.
CidrIgnoresAll ==
  /\ pc = "matched"
  /\ AtomKey = Str("F|cidr|all")
  /\ AtomPatterns = {Str("10.0.0.0/8"), Str("192.168.0.0/16")}
  /\ ValueOfF = Str("10.1.2.3")
  /\ ~MatchesAlone(Str("192.168.0.0/16"))
  /\ result = "true"

\* F|re|all with a and b does not match ax.
RegexHonoursAll ==
  /\ pc = "matched"
  /\ AtomKey = Str("F|re|all")
  /\ ValueOfF = Str("ax")
  /\ result = "false"

(**************************************************************************)
(* Pattern interpretation: atoms on the field F whose modifiers name a    *)
(* regular expression, a network, both in either order, or neither.       *)
(**************************************************************************)

InterpretationKeys ==
  {Str(k) : k \in {"F", "F|re", "F|cidr", "F|re|cidr", "F|cidr|re", "F|contains|re"}}

InterpretationPatterns == {Str(p) : p \in {"a.*", "a*", "10.0.0.0/8", "(", "10.1.2.3"}}

InterpretationValues ==
  {Str(v) : v \in {"abc", "a.*", "10.1.2.3", "10.0.0.0/8", "x", "11.1.2.3"}}

InitInterpretation ==
  Start({AtomDoc(k, JString(p), Str("selection")) :
           k \in InterpretationKeys, p \in InterpretationPatterns})

MatchInterpretation ==
  ExprMatches({LogEntry(<<>>, <<Field(Str("F"), v)>>) : v \in InterpretationValues},
              {NoPlaceholders})

NextInterpretation == ParseRule \/ MatchInterpretation

SpecInterpretation == InitInterpretation /\ [][NextInterpretation]_vars

\* The interpretation under which validate accepted the patterns of the
\* atom of the rule in hand: "glob", "re" or "cidr".
ValidatedAs == ValidateModifiers(TheAtom, 1, "glob", FALSE).patternType

\* The atom of the rule in hand with the interpretation validate used as
\* the only one its modifiers name.
AtomAsValidated ==
  [TheAtom EXCEPT !._compiledCache = NoCache,
                  !.modifiers = SelectSeq(TheAtom.modifiers,
                                  LAMBDA m : m \notin ({mRe, mCidr} \ {Str(ValidatedAs)}))]

\* C23 as stated: the matcher is built under the interpretation under
\* which validate accepted the patterns, so an atom matches exactly when
\* the atom with that interpretation alone does, also when its modifiers
\* hold both re and cidr.
OneInterpretation ==
  pc = "matched" => result = AtomExprMatches(AtomAsValidated, entry, opts).r

\* F|cidr|re: 'a.*' is accepted as a regular expression and does not
\* match abc, because the matcher is built from networks.
ValidatedAsRegexMatchedAsCidr ==
  /\ pc = "matched"
  /\ AtomKey = Str("F|cidr|re")
  /\ AtomPatterns = {Str("a.*")}
  /\ ValidatedAs = "re"
  /\ Includes(TheAtom.modifiers, mCidr)
  /\ ValueOfF = Str("abc")
  /\ AtomExprMatches(AtomAsValidated, entry, opts).r = "true"
  /\ result = "false"

\* F|re|cidr: 10.0.0.0/8 is accepted as a network and matches 10.1.2.3.
ValidatedAndMatchedAsCidr ==
  /\ pc = "matched"
  /\ AtomKey = Str("F|re|cidr")
  /\ AtomPatterns = {Str("10.0.0.0/8")}
  /\ ValidatedAs = "cidr"
  /\ ValueOfF = Str("10.1.2.3")
  /\ result = "true"

(**************************************************************************)
(* Lists: rules with the one search identifier `sel`, whose value is a    *)
(* list of strings and field maps, and the condition `sel`.               *)
(**************************************************************************)

CollapseElements ==
  {JString(Str("a")), JString(Str("b")), JString(Str("a*c")),
   JObject(<<KV(Str("F"), JString(Str("x")))>>),
   JObject(<<KV(Str("F"), JString(Str("x"))), KV(Str("G"), JString(Str("y")))>>)}

CollapseLists ==
  {<<e>> : e \in CollapseElements}
    \cup {<<e, f>> : e \in CollapseElements, f \in CollapseElements}
    \cup {<<e, f, g>> : e \in CollapseElements, f \in CollapseElements, g \in CollapseElements}

CollapseDoc(list) ==
  RuleDoc(JObject(<<KV(Str("sel"), JArray([i \in 1..Len(list) |-> list[i]])),
                    KV(kCondition, JString(Str("sel")))>>))

CollapseEntries ==
  {LogEntry(Str(m), <<Field(Str("F"), Str(f)), Field(Str("G"), Str(g))>>) :
     m \in {"a", "xbx", "abc", "d"}, f \in {"x", "z"}, g \in {"y", "z"}}

InitCollapse == Start({CollapseDoc(l) : l \in CollapseLists})

MatchCollapse == ExprMatches(CollapseEntries, {NoPlaceholders})

NextCollapse == ParseRule \/ MatchCollapse

SpecCollapse == InitCollapse /\ [][NextCollapse]_vars

\* A tree written without heap indices: an atom, or a node over trees.
Leaf(field, modifiers, patterns) ==
  [k |-> "SearchAtom", field |-> field, modifiers |-> modifiers, patterns |-> patterns,
   kids |-> <<>>]

Inner(k, kids) == [k |-> k, field |-> UNDEF, modifiers |-> <<>>, patterns |-> <<>>, kids |-> kids]

RECURSIVE Tree(_, _)
\* The tree at heap index id.
Tree(heap, id) ==
  [k |-> heap[id].k, field |-> heap[id].field, modifiers |-> heap[id].modifiers,
   patterns |-> heap[id].patterns,
   kids |-> [j \in 1..Len(heap[id].x) |-> Tree(heap, heap[id].x[j])]]

\* The elements of the list `sel` of the document in hand.
SelElements ==
  [i \in 1..Len(Get(Get(doc, kDetection), Str("sel")).items) |->
     Get(Get(doc, kDetection), Str("sel")).items[i].value]

\* What one element of the list stands for by itself: a fieldless atom
\* for a string, the atom of the key of a one-key map, the And of the
\* atoms of the keys of a map with several keys.
ElementTree(e) ==
  IF e.t = "string" THEN Leaf(UNDEF, <<>>, <<e.s>>)
  ELSE IF Len(e.items) = 1 THEN Leaf(e.items[1].key, <<>>, <<e.items[1].value.s>>)
  ELSE Inner("AndExpr", [j \in 1..Len(e.items) |->
                           Leaf(e.items[j].key, <<>>, <<e.items[j].value.s>>)])

\* The tree under the name sel in the rule in hand.
SelTree == Tree(rule.rule.heap, rule.rule.heap[rule.rule.expr].x[1])

\* The fieldless atom with the one pattern p matches the last entry.
KeywordMatchesAlone(p) ==
  AtomExprMatches(SearchAtom(UNDEF, <<>>, <<p>>), entry, opts).r = "true"

\* C24: a list of two or more strings becomes one fieldless atom without
\* modifiers whose patterns are the elements in order, and it matches
\* exactly when the atom of one of the elements does; a list of two or
\* more elements with a field map among them becomes the Or of what the
\* elements stand for, in list order.
ListCollapse ==
  (pc \in {"parsed", "matched"} /\ Len(SelElements) >= 2) =>
    IF \A i \in 1..Len(SelElements) : SelElements[i].t = "string"
    THEN /\ SelTree = Leaf(UNDEF, <<>>, [i \in 1..Len(SelElements) |-> SelElements[i].s])
         /\ pc = "matched" =>
              ((result = "true")
                 = \E i \in 1..Len(SelElements) : KeywordMatchesAlone(SelElements[i].s))
    ELSE SelTree = Inner("OrExpr", [i \in 1..Len(SelElements) |-> ElementTree(SelElements[i])])

\* The list [a*c, b] is one atom with the patterns a*c and b, and matches
\* the message xbx through its second pattern alone.
CollapseWitness ==
  /\ pc = "matched"
  /\ SelTree = Leaf(UNDEF, <<>>, <<Str("a*c"), Str("b")>>)
  /\ entry.message = Str("xbx")
  /\ ~KeywordMatchesAlone(Str("a*c"))
  /\ result = "true"

\* The list [b, {F: x, G: y}, a] is an Or of an atom, an And and an atom.
MixedListWitness ==
  /\ pc = "parsed"
  /\ Len(SelElements) = 3
  /\ SelTree.k = "OrExpr"
  /\ SelTree.kids[2].k = "AndExpr"
  /\ SelTree.kids[3] = Leaf(UNDEF, <<>>, <<Str("a")>>)

(**************************************************************************)
(* Node arity: rules over the search identifiers a and b, whose values    *)
(* are strings, maps with one and two keys and lists with one and more    *)
(* elements, under single conditions, condition lists and quantifiers.    *)
(**************************************************************************)

ArityValues ==
  {JString(Str("x")),
   JObject(<<KV(Str("F"), JString(Str("x")))>>),
   JObject(<<KV(Str("F"), JString(Str("x"))), KV(Str("G"), JString(Str("y")))>>),
   JArray(<<JString(Str("x"))>>),
   JArray(<<JObject(<<KV(Str("F"), JString(Str("x"))), KV(Str("G"), JString(Str("y")))>>)>>),
   JArray(<<JString(Str("x")), JString(Str("y"))>>),
   JArray(<<JString(Str("x")), JObject(<<KV(Str("F"), JString(Str("x")))>>)>>)}

ArityConditions ==
  {JString(Str(c)) : c \in {"a", "not a", "( a )", "a and b", "a or b", "a and b and a",
                            "1 of a*", "all of b", "1 of them", "all of them",
                            "1 of a* or b", "all of them and a", "( 1 of b* ) and not a"}}
    \cup {JStrings(<<Str("a")>>), JStrings(<<Str("a"), Str("b")>>),
          JStrings(<<Str("1 of a*"), Str("a and b"), Str("all of them")>>)}

ArityDoc(va, vb, condition) ==
  RuleDoc(JObject(<<KV(Str("a"), va), KV(Str("b"), vb), KV(kCondition, condition)>>))

ArityEntries ==
  {LogEntry(Str(m), <<Field(Str("F"), Str(f)), Field(Str("G"), Str("y"))>>) :
     m \in {"x", "z"}, f \in {"x", "z"}}

InitArity ==
  Start({ArityDoc(va, vb, c) : va \in ArityValues, vb \in ArityValues, c \in ArityConditions})

MatchArity == ExprMatches(ArityEntries, {NoPlaceholders})

NextArity == ParseRule \/ MatchArity

SpecArity == InitArity /\ [][NextArity]_vars

\* The And and Or nodes of the tree of the rule in hand.
TreeContainers ==
  {id \in NodesUnder(rule.rule.heap, rule.rule.expr) :
     rule.rule.heap[id].k \in {"AndExpr", "OrExpr"}}

\* C25: in the tree of a parsed rule every And node and every Or node has
\* at least two children.
ContainersHaveTwoChildren ==
  pc \in {"parsed", "matched"} => \A id \in TreeContainers : Len(rule.rule.heap[id].x) >= 2

\* A one-key map under a, a one-element list under b, and the condition
\* `1 of a*`, which selects a alone: the tree is the name a over an atom,
\* without any And or Or.
UnwrappedWitness ==
  /\ pc = "parsed"
  /\ Get(Get(doc, kDetection), Str("a")) = JObject(<<KV(Str("F"), JString(Str("x")))>>)
  /\ Get(Get(doc, kDetection), Str("b")) = JArray(<<JString(Str("x"))>>)
  /\ Get(Get(doc, kDetection), kCondition) = JString(Str("1 of a*"))
  /\ RuleShape = Str("a")
  /\ rule.rule.heap[rule.rule.heap[rule.rule.expr].x[1]].k = "SearchAtom"
  /\ TreeContainers = {}

\* Two-key maps under a and b and the condition `all of them and a`: the
\* tree has And nodes, each with two children or more.
ContainersWitness ==
  /\ pc = "parsed"
  /\ Get(Get(doc, kDetection), kCondition) = JString(Str("all of them and a"))
  /\ Cardinality(TreeContainers) >= 3

(**************************************************************************)
(* Placeholder patterns: expand atoms on the field F whose one pattern    *)
(* has percent signs at both ends, at one end, or none.                   *)
(**************************************************************************)

WrapKeys == {Str(k) : k \in {"F|expand", "F|expand|contains", "F|contains|expand"}}

WrapPatterns == {Str(p) : p \in {"%", "%%", "%a%", "%%%", "a", "%a", "a%", "a%a"}}

WrapTables ==
  {NoPlaceholders,
   Placeholders(<<Placeholder("a", <<Str("x")>>)>>),
   Placeholders(<<Placeholder("%", <<Str("x")>>)>>),
   Placeholders(<<Placeholder("", <<Str("x")>>), Placeholder("a", <<Str("y")>>)>>)}

InitWrap ==
  Start({AtomDoc(k, JString(p), Str("selection")) : k \in WrapKeys, p \in WrapPatterns})

MatchWrap ==
  ExprMatches({LogEntry(<<>>, <<Field(Str("F"), Str(v))>>) : v \in {"x", "y", "z"}}, WrapTables)

NextWrap == ParseRule \/ MatchWrap

SpecWrap == InitWrap /\ [][NextWrap]_vars

\* p has the form %name%: an opening and a distinct closing percent sign.
IsWrapped(p) == Len(p) >= 2 /\ p[1] = "%" /\ p[Len(p)] = "%"

\* expand is the first modifier of the key of the document in hand.
ExpandIsFirst ==
  \E i \in 1..Len(AtomKey) :
    /\ AtomKey[i] = "|"
    /\ \A j \in 1..(i - 1) : AtomKey[j] # "|"
    /\ StartsWith(SubSeq(AtomKey, i + 1, Len(AtomKey)), mExpand)

\* The values the table of the last call holds under the text between
\* the percent signs of the pattern p.
ValuesBetweenPercents(p) ==
  IF ~opts.has THEN {}
  ELSE UNION {{opts.tab[i].values[k] : k \in 1..Len(opts.tab[i].values)} :
                i \in {j \in 1..Len(opts.tab) : opts.tab[j].name = SubSeq(p, 2, Len(p) - 1)}}

\* C26 as stated: a rule with an expand atom is parsed exactly when
\* expand is the first modifier and every pattern has the form %name%,
\* and the atom then matches through the values the table holds under
\* the text between the two percent signs.
ExpandIsWrapped ==
  pc # "input" =>
    /\ (pc # "failed") = (ExpandIsFirst /\ \A p \in AtomPatterns : IsWrapped(p))
    /\ (pc = "matched" /\ AtomKey = Str("F|expand")) =>
         ((result = "true")
            = \E p \in AtomPatterns : \E v \in ValuesBetweenPercents(p) : v = ValueOfF)

\* The pattern % alone is accepted, and matches the value x through the
\* values the table holds under the name %.
LonePercentAccepted ==
  /\ pc = "matched"
  /\ AtomKey = Str("F|expand")
  /\ AtomPatterns = {Str("%")}
  /\ opts = Placeholders(<<Placeholder("%", <<Str("x")>>)>>)
  /\ ValueOfF = Str("x")
  /\ result = "true"

\* The pattern %% is accepted and looks up the empty name.
EmptyNameLookedUp ==
  /\ pc = "matched"
  /\ AtomKey = Str("F|expand")
  /\ AtomPatterns = {Str("%%")}
  /\ ValueOfF = Str("x")
  /\ result = "true"

(**************************************************************************)
(* Ill-formed conditions: the well-formed conditions of depth <= 1 over   *)
(* a, b, c with one token removed, or one token put in.                   *)
(**************************************************************************)

\* The tokens put in: a second identifier, parentheses, an unknown
\* operator word, an unknown identifier, an operator.
SyntaxExtras == {Str(t) : t \in {"a", ")", "(", "xor", "d", "and", "not"}}

WithoutToken(t, k) == SubSeq(t, 1, k - 1) \o SubSeq(t, k + 1, Len(t))

WithToken(t, k, x) == SubSeq(t, 1, k) \o <<x>> \o SubSeq(t, k + 1, Len(t))

SyntaxTokens ==
  CondTokens(1)
    \cup UNION {{WithoutToken(t, k) : k \in 1..Len(t)} : t \in CondTokens(1)}
    \cup UNION {{WithToken(t, k, x) : k \in 0..Len(t), x \in SyntaxExtras} : t \in CondTokens(1)}

InitSyntax == Start({CondDoc(t) : t \in SyntaxTokens})

MatchSyntax == ExprMatches(CondEntries, {NoPlaceholders})

NextSyntax == ParseRule \/ MatchSyntax

SpecSyntax == InitSyntax /\ [][NextSyntax]_vars

\* C27: a condition is parsed into a tree only when the whole string is
\* one well-formed expression over the known identifiers; a token left
\* over, a missing `)`, a missing operand or an unknown identifier makes
\* parseRule fail with a SigmaError, and no tree is returned.
SyntaxErrorsAbort ==
  pc # "input" =>
    IF IsStdCondition THEN pc # "failed"
    ELSE /\ pc = "failed"
         /\ rule.cls = "SigmaError"
         /\ rule.rule = NoRule

\* `a b`, a second identifier without an operator, is rejected as an
\* unexpected token.
LeftoverWitness ==
  /\ pc = "failed"
  /\ ConditionOf(doc) = Str("a b")
  /\ rule.msg = "condition: unexpected token"
  /\ rule.rule = NoRule

\* `a and` and `not` lack an operand, `a or d` names an unknown identifier.
SyntaxWitness ==
  /\ pc = "failed"
  /\ ConditionOf(doc) \in {Str("a and"), Str("not"), Str("a or d")}
  /\ rule.msg \in {"unexpected end of condition", "unknown search identifier"}

(**************************************************************************)
(* The identifier table under condition parsing: rules over a, b and c,   *)
(* where a and b are maps with two keys (And) or mixed lists (Or), under  *)
(* conditions that chain them, select them by quantifiers and name them   *)
(* several times.                                                         *)
(**************************************************************************)

FrameValues ==
  {JObject(<<KV(Str("F"), JString(Str("x"))), KV(Str("G"), JString(Str("y")))>>),
   JArray(<<JString(Str("x")), JObject(<<KV(Str("F"), JString(Str("x")))>>)>>),
   JArray(<<JString(Str("x")), JString(Str("y"))>>)}

FrameConditions ==
  {JString(Str(c)) : c \in {"a and b", "a or b", "a and b and c", "a or b or c", "a and a",
                            "a or a or a", "1 of them", "all of them", "all of them and a",
                            "1 of them or a", "( a and b ) and c", "( a or b ) or c",
                            "all of a* and b", "1 of a* or b or c", "not a and b"}}
    \cup {JStrings(<<Str("a and b"), Str("a or c")>>),
          JStrings(<<Str("1 of them"), Str("all of them and b"), Str("a and c")>>),
          JStrings(<<Str("a or b"), Str("a or b")>>)}

FrameDoc(va, vb, condition) ==
  RuleDoc(JObject(<<KV(Str("a"), va), KV(Str("b"), vb),
                    KV(Str("c"), JObject(<<KV(Str("H"), JString(Str("z")))>>)),
                    KV(kCondition, condition)>>))

FrameEntries ==
  {LogEntry(Str(m), <<Field(Str("F"), Str(f)), Field(Str("G"), Str("y")),
                      Field(Str("H"), Str(h))>>) :
     m \in {"x", "w"}, f \in {"x", "w"}, h \in {"z", "w"}}

InitFrame ==
  Start({FrameDoc(va, vb, c) : va \in FrameValues, vb \in FrameValues, c \in FrameConditions})

MatchFrame == ExprMatches(FrameEntries, {NoPlaceholders})

NextFrame == ParseRule \/ MatchFrame

SpecFrame == InitFrame /\ [][NextFrame]_vars

\* What the value of a search identifier stands for by itself: the tree
\* of its one element, one atom for a list of strings, the Or of its
\* elements otherwise.
ValueTree(v) ==
  IF v.t # "array" THEN ElementTree(v)
  ELSE IF Len(v.items) = 1 THEN ElementTree(v.items[1].value)
  ELSE IF \A i \in 1..Len(v.items) : v.items[i].value.t = "string"
  THEN Leaf(UNDEF, <<>>, [i \in 1..Len(v.items) |-> v.items[i].value.s])
  ELSE Inner("OrExpr", [i \in 1..Len(v.items) |-> ElementTree(v.items[i].value)])

\* The named expressions of the rule in hand, in the heap and in the
\* identifier table.
NamedNodes == {i \in 1..Len(rule.rule.heap) : rule.rule.heap[i].k = "NamedExpr"}

\* C28: after all the conditions are parsed, and after matching, the
\* tree under each name is the one built from the value of the
\* identifier, and the identifier table holds one named expression for
\* each identifier.
IdentifiersUntouched ==
  pc \in {"parsed", "matched"} =>
    /\ \A i \in NamedNodes :
         Tree(rule.rule.heap, rule.rule.heap[i].x[1])
           = ValueTree(Get(Get(doc, kDetection), rule.rule.heap[i].name))
    /\ {rule.rule.identifiers[k].id : k \in 1..Len(rule.rule.identifiers)} = NamedNodes

\* a is an And of two atoms, and the condition `a and b and c` chains it
\* with b and c: the operands went to the And of the condition, a has
\* its two atoms.
FrameWitness ==
  /\ pc = "parsed"
  /\ Get(Get(doc, kDetection), kCondition) = JString(Str("a and b and c"))
  /\ RuleShape = Str("and(a,b,c)")
  /\ \E i \in NamedNodes :
       /\ rule.rule.heap[i].name = Str("a")
       /\ rule.rule.heap[rule.rule.heap[i].x[1]].k = "AndExpr"
       /\ Len(rule.rule.heap[rule.rule.heap[i].x[1]].x) = 2

\* Several conditions and quantifiers over the same identifiers.
FrameQuantifierWitness ==
  /\ pc = "matched"
  /\ Get(Get(doc, kDetection), kCondition)
       = JStrings(<<Str("1 of them"), Str("all of them and b"), Str("a and c")>>)
  /\ RuleShape = Str("or(or(a,b,c),and(a,b,c,b),and(a,c))")

(**************************************************************************)
(* Dates: rules with a date and a modified date written as three numbers, *)
(* within and beyond the length of the month.                             *)
(**************************************************************************)

DateTexts ==
  {Str(s) : s \in {"2024/01/15", "2024-01-15", "2024/02/29", "2023/02/29", "2024/02/30",
                   "2024-02-30", "2024/04/31", "2023/06/31", "2024/12/31", "2024/01/31",
                   "1999/11/30", "0100/01/01", "0099/01/01", "99/01/01", "2024/00/10",
                   "2024/13/01", "2024/01/00", "2024/01/32", "2024/1/5", "2024/02/31"}}

ModifiedTexts == {Str(s) : s \in {"2024/01/15", "2024/09/31", "2024/13/01"}}

DateDoc(date, modified) ==
  JObject(<<KV(kTitle, JString(Str("rule"))),
            KV(kDetection, RuleDetection(<<>>, Str("selection"))),
            KV(kDate, date), KV(kModified, modified)>>)

InitDate ==
  Start({DateDoc(JString(d), m) :
           d \in DateTexts, m \in {JUndefined} \cup {JString(t) : t \in ModifiedTexts}})

MatchDate == ExprMatches(RuleEntries, {NoPlaceholders})

NextDate == ParseRule \/ MatchDate

SpecDate == InitDate /\ [][NextDate]_vars

\* The three numbers written in a date text.
Written(s) ==
  [year  |-> ParseDecimal(SplitOn(s, {"/", "-"})[1]),
   month |-> ParseDecimal(SplitOn(s, {"/", "-"})[2]),
   day   |-> ParseDecimal(SplitOn(s, {"/", "-"})[3])]

\* The numbers are ones SigmaDate.parse is said to accept.
InRange(w) == w.year >= 100 /\ w.month \in 1..12 /\ w.day \in 1..31

\* The text is in the zero-padded form YYYY/MM/DD.
IsPadded(s) == Len(s) = 10 /\ s[5] = "/" /\ s[8] = "/"

\* The date and the modified date written in the document in hand.
DateText == Get(doc, kDate).s

HasModifiedText == Get(doc, kModified).t = "string"

ModifiedText == Get(doc, kModified).s

\* C29 as stated: a date is rejected exactly when its year is below 100,
\* its month outside 1..12 or its day outside 1..31; the year, month and
\* day of an accepted date are the numbers written, and the text of an
\* accepted date in the form YYYY/MM/DD is the text written.
DatesAreAsWritten ==
  pc # "input" =>
    /\ (pc = "failed") = (~InRange(Written(DateText))
                            \/ (HasModifiedText /\ ~InRange(Written(ModifiedText))))
    /\ pc # "failed" =>
         /\ rule.rule.date = Written(DateText)
         /\ HasModifiedText => rule.rule.modified = Written(ModifiedText)
         /\ IsPadded(DateText) => SigmaDateToString(rule.rule.date) = DateText

\* 2024/02/30 is accepted and becomes the first of March.
DateNormalized ==
  /\ pc = "parsed"
  /\ DateText = Str("2024/02/30")
  /\ rule.rule.hasDate
  /\ rule.rule.date = [year |-> 2024, month |-> 3, day |-> 1]
  /\ SigmaDateToString(rule.rule.date) = Str("2024/03/01")

\* 2024/02/29, a day of a leap year, is accepted as written.
DateAsWritten ==
  /\ pc = "parsed"
  /\ DateText = Str("2024/02/29")
  /\ SigmaDateToString(rule.rule.date) = DateText

(**************************************************************************)
(* Permutations: base64offset and windash atoms on the field F, with      *)
(* patterns of zero to three characters and with the empty pattern.       *)
(**************************************************************************)

PermuteKeys == {Str(k) : k \in {"F|base64offset", "F|windash", "F|contains|windash"}}

PermutePatterns == {Str(p) : p \in {"", "a", "ab", "abc", "-c", "a /c"}}

PermuteValues ==
  {Str(v) : v \in {"", "x", "a", "YQ", "xYWJjx", "-c", "/c", "a -c", "x/cx"}}
    \cup {<<"<emdash>", "c">>}

InitPermute ==
  Start({AtomDoc(k, JString(p), Str("selection")) : k \in PermuteKeys, p \in PermutePatterns})

MatchPermute ==
  ExprMatches({LogEntry(<<>>, <<Field(Str("F"), v)>>) : v \in PermuteValues}, {NoPlaceholders})

NextPermute == ParseRule \/ MatchPermute

SpecPermute == InitPermute /\ [][NextPermute]_vars

\* The dash characters in the order of the variants.
DashOrder == <<"-", "/", "<endash>", "<emdash>", "<horizontalbar>">>

\* The five variants of a pattern, one per dash character in order: its
\* first parameter dash replaced, or the pattern as it is when it has
\* none.
FiveVariants(p) ==
  [k \in 1..5 |->
     IF DashPlaces(p) = {} THEN p
     ELSE [p EXCEPT ![CHOOSE j \in DashPlaces(p) : \A i \in DashPlaces(p) : j <= i]
                      = DashOrder[k]]]

\* C30 as stated: for every pattern base64Permute gives three variants
\* and windashPermute gives five, one per dash character in order, and a
\* base64offset atom that matches a value found one of the three in it.
PermutationsAreFixedSize ==
  pc # "input" =>
    \A p \in AtomPatterns :
      /\ Len(base64Permute(p)) = 3
      /\ windashPermute(p) = FiveVariants(p)
      /\ (pc = "matched" /\ AtomKey = Str("F|base64offset") /\ result = "true") =>
           \E k \in 1..Len(base64Permute(p)) : Occurs(base64Permute(p)[k], ValueOfF)

\* The empty pattern has no base64 variant, and the base64offset atom
\* made of it matches the value x.
EmptyPatternHasNoVariant ==
  /\ pc = "matched"
  /\ AtomKey = Str("F|base64offset")
  /\ AtomPatterns = {<<>>}
  /\ base64Permute(<<>>) = <<>>
  /\ ValueOfF = Str("x")
  /\ result = "true"

\* abc has three variants, and -c the five variants of its dash: the
\* windash atom matches the value written with an em dash.
ThreeAndFiveVariants ==
  /\ pc = "matched"
  /\ AtomPatterns = {Str("-c")}
  /\ AtomKey = Str("F|windash")
  /\ Len(windashPermute(Str("-c"))) = 5
  /\ Len(base64Permute(Str("abc"))) = 3
  /\ ValueOfF = <<"<emdash>", "c">>
  /\ result = "true"

=============================================================================
